---- MODULE Spec2Model ----
(***************************************************************************)
(* Model of the classics predictor (procyclingstats/classics_predictor.py) *)
(* and of the backtest scorer and weight calibrator that drive it          *)
(* (tests/test_backtest_2025.py).                                          *)
(*                                                                         *)
(* Numbers.  Python floats are modelled as exact rationals [num, den] kept *)
(* in lowest terms; feature signals are integers in thousandths (a signal  *)
(* of 0.7 is 700) and a prediction's score is an integer in tenths (the    *)
(* value round(score * 100, 1) times 10).  Binary64 rounding error is not  *)
(* modelled, except where the calibrator compares a computed residual with *)
(* a literal band edge (see FloatEdgePruned), where a product is truncated *)
(* (see FloatShort) and where a sum depends on its order (see SumUlps).    *)
(***************************************************************************)
EXTENDS Integers, Sequences, FiniteSets, TLC

VARIABLES
    raw,            \* weights argument of ClassicsPredictor(weights=...)
    ctor,           \* outcome of the constructor: "none", "ok" or "ZeroDivisionError"
    weights,        \* self.weights
    startlist,      \* startlist argument of predict
    rider_data,     \* rider_data argument of predict
    live,           \* what the live site yields per rider (_fetch_rider_data)
    predictions,    \* None, or the list predict returned
    sp_pred,        \* predictions argument of the last score_predictions call
    actual_top10,   \* actual_top10 argument of the last score_predictions call
    scores,         \* dict returned by the last score_predictions call
    races,          \* race set used by run_backtest
    opt,            \* local variables of optimize_weights
    call            \* a call of one feature function: its arguments and outcome

vars == <<raw, ctor, weights, startlist, rider_data, live, predictions,
          sp_pred, actual_top10, scores, races, opt, call>>

predictorVars == <<raw, ctor, weights, startlist, rider_data, live, predictions>>
scorerVars == <<sp_pred, actual_top10, scores>>
calibratorVars == <<races, opt>>
featureVars == <<call>>

\* Python's None where a dict or a list may stand: None is << >> and a
\* present value x is <<x>>
None == << >>

Some(x) == <<x>>

\* Python's None where a rider URL may stand
Null == "None"

-----------------------------------------------------------------------------
(* Bounds of the model *)

MaxRoster == 3        \* longest startlist handed to predict
MaxRawWeight == 1     \* largest raw weight handed to the constructor

-----------------------------------------------------------------------------
(* Exact rational arithmetic standing in for float arithmetic *)

Abs(x) == IF x < 0 THEN -x ELSE x

Max(a, b) == IF a >= b THEN a ELSE b

Min(a, b) == IF a <= b THEN a ELSE b

\* Euclid's algorithm, two divisions a step
RECURSIVE GCD(_, _)
GCD(a, b) ==
    IF b = 0 THEN a
    ELSE IF a % b = 0 THEN b
    ELSE GCD(a % b, b % (a % b))

Rat(n, d) ==
    IF n = 0 THEN [num |-> 0, den |-> 1]
    ELSE LET g == GCD(Abs(n), d)
         IN  [num |-> n \div g, den |-> d \div g]

Zero == [num |-> 0, den |-> 1]

One == [num |-> 1, den |-> 1]

RatAdd(a, b) ==
    IF a.num = 0 THEN b
    ELSE IF b.num = 0 THEN a
    ELSE LET l == (a.den \div GCD(a.den, b.den)) * b.den
         IN  Rat(a.num * (l \div a.den) + b.num * (l \div b.den), l)

RatSub(a, b) == RatAdd(a, [num |-> -b.num, den |-> b.den])

RatMul(a, b) ==
    IF a.num = 0 \/ b.num = 0 THEN Zero
    ELSE LET g1 == GCD(Abs(a.num), b.den)
             g2 == GCD(Abs(b.num), a.den)
         IN  Rat((a.num \div g1) * (b.num \div g2),
                 (a.den \div g2) * (b.den \div g1))

RatLess(a, b) == a.num * b.den < b.num * a.den

RatLeq(a, b) == a.num * b.den <= b.num * a.den

RatMax(a, b) == IF RatLess(a, b) THEN b ELSE a

\* round(x): nearest integer, halves to the even neighbour
RoundHalfEven(x) ==
    LET q == x.num \div x.den
        r == x.num % x.den
    IN  IF 2 * r < x.den THEN q
        ELSE IF 2 * r > x.den THEN q + 1
        ELSE IF q % 2 = 0 THEN q ELSE q + 1

HasKey(d, k) == k \in DOMAIN d

\* dict.get(k, default)
Get(d, k, default) == IF k \in DOMAIN d THEN d[k] ELSE default

RECURSIVE SumSeq(_)
SumSeq(s) == IF s = <<>> THEN 0 ELSE Head(s) + SumSeq(Tail(s))

\* sum() of a list of rationals; being exact, the sum does not depend on the
\* grouping, and the two halves are added to keep the evaluation shallow
RECURSIVE RatSumSeq(_)
RatSumSeq(s) ==
    IF s = <<>> THEN Zero
    ELSE IF Len(s) = 1 THEN s[1]
    ELSE LET h == Len(s) \div 2
         IN  RatAdd(RatSumSeq(SubSeq(s, 1, h)), RatSumSeq(SubSeq(s, h + 1, Len(s))))

\* the first n elements of s: s[:n]
Prefix(s, n) == SubSeq(s, 1, Min(n, Len(s)))

Range(s) == {s[i] : i \in DOMAIN s}

-----------------------------------------------------------------------------
(* Process-wide constants *)

\* the 13 features, in the order _compute_features inserts them
FeatureNames ==
    << "age_distance_fit", "recent_form", "classic_pedigree", "specialty_score",
       "previous_year", "preparation", "injury_penalty", "terrain_match",
       "sprint_capability", "uphill_sprint", "cobble_capability", "momentum",
       "team_strength" >>

FeatureSet == Range(FeatureNames)

\* DEFAULT_WEIGHTS, in thousandths
DEFAULT_WEIGHTS ==
    [ classic_pedigree |-> 150, terrain_match |-> 150, uphill_sprint |-> 120,
      cobble_capability |-> 120, sprint_capability |-> 80, team_strength |-> 59,
      preparation |-> 53, previous_year |-> 50, specialty_score |-> 46,
      injury_penalty |-> 46, recent_form |-> 46, momentum |-> 46,
      age_distance_fit |-> 33 ]

TEAM_TIERS ==
    [ t \in { "uae-team-emirates", "team-visma-lease-a-bike", "alpecin-deceuninck",
              "lidl-trek", "soudal-quick-step" } |-> 1 ]
    @@
    [ t \in { "ineos-grenadiers", "groupama-fdj", "bahrain-victorious",
              "team-jayco-alula", "ef-education-easypost", "intermarche-wanty",
              "lotto-dstny", "movistar-team", "decathlon-ag2r-la-mondiale-team",
              "cofidis", "team-dsm-firmenich-postnl", "uno-x-mobility" } |-> 2 ]

-----------------------------------------------------------------------------
(* Rosters and athlete records *)

URLs == {"rider/a", "rider/b", "rider/c"}

\* entry["rider_name"] for the entry of a rider
NameOf(url) ==
    CASE url = "rider/a" -> "A"
      [] url = "rider/b" -> "B"
      [] url = "rider/c" -> "C"
      [] OTHER -> "Unknown"

\* the features whose value is taken from the record's precomputed signals
SignalFeatures == FeatureSet \ {"team_strength"}

\* An athlete record: the team slug and, for every feature scored from the
\* profile and the results, the signal (in thousandths) those yield.
Rec(team, form, pedigree, punch, other) ==
    [ team |-> team,
      signals |->
        [ f \in SignalFeatures |->
            CASE f \in {"recent_form", "momentum"} -> form
              [] f \in {"classic_pedigree", "previous_year"} -> pedigree
              [] f \in {"uphill_sprint", "cobble_capability"} -> punch
              [] OTHER -> other ] ]

RecLeader == Rec("lidl-trek", 900, 800, 300, 600)

RecPuncheur == Rec("cofidis", 400, 0, 1000, 500)

RecNeo == Rec("", 0, 137, 0, 500)

\* the record a caller holds for each rider
RecordOf(url) ==
    CASE url = "rider/a" -> RecLeader
      [] url = "rider/b" -> RecPuncheur
      [] OTHER -> RecNeo

\* what _fetch_rider_data builds has no "team" key
LivePool == {Rec("", 700, 450, 200, 550)}

\* rider_data arguments: dicts from rider URL to record
RiderDatas == { [u \in D |-> RecordOf(u)] : D \in SUBSET URLs }

\* per rider, the record the live site yields, or None when both the
\* Rider and the RiderResults scrape raise ValueError/AttributeError
LiveSites(rd) ==
    { l \in [URLs -> {Some(r) : r \in LivePool} \cup {None}] :
        \A u \in DOMAIN rd : l[u] = None }

RECURSIVE SeqsUpTo(_, _)
SeqsUpTo(S, n) ==
    IF n = 0 THEN { << >> }
    ELSE LET shorter == SeqsUpTo(S, n - 1)
         IN  shorter \cup { Append(s, x) : s \in { t \in shorter : Len(t) = n - 1 }, x \in S }

Entry(url) == [rider_url |-> url, rider_name |-> NameOf(url)]

\* startlist arguments: lists of entries, repeats allowed
StartLists == { [i \in DOMAIN s |-> Entry(s[i])] : s \in SeqsUpTo(URLs, MaxRoster) }

-----------------------------------------------------------------------------
(* ClassicsPredictor.__init__ *)

\* keys a caller-supplied weight vector may carry; the last is not a feature
WeightKeys == {"classic_pedigree", "bogus_feature"}

RawWeightVectors ==
    UNION { [K -> 0 .. MaxRawWeight] : K \in SUBSET WeightKeys }

\* the values of d under the keys K, added up
RECURSIVE SumOver(_, _)
SumOver(d, K) ==
    IF K = {} THEN 0
    ELSE LET k == CHOOSE x \in K : TRUE
         IN  d[k] + SumOver(d, K \ {k})

\* sum(raw.values())
SumValues(d) == SumOver(d, DOMAIN d)

\* a slip: dividing by the number of entries instead of their sum
NormalizeByCount(rawv, total) ==
    [k \in DOMAIN rawv |-> Rat(rawv[k], Cardinality(DOMAIN rawv))]

\* {k: v / total for k, v in raw.items()}
Normalize(rawv, total) == [k \in DOMAIN rawv |-> Rat(rawv[k], total)]

\* weights if weights is not None else DEFAULT_WEIGHTS.copy()
Construct(w) ==
    LET rawv == IF w = None THEN DEFAULT_WEIGHTS ELSE w[1]
        total == SumValues(rawv)
    IN  /\ IF DOMAIN rawv # {} /\ total = 0
           THEN /\ ctor' = "ZeroDivisionError"
                /\ weights' = << >>
           ELSE /\ ctor' = "ok"
                /\ weights' = Normalize(rawv, total)
        /\ UNCHANGED <<raw, startlist, rider_data, live, predictions>>

-----------------------------------------------------------------------------
(* Feature computation *)

\* a slip: a team outside the table counted as a tier-2 team
score_team_strength_tier2(rdata) ==
    LET team == Get(rdata, "team", "")
    IN  IF team = "" THEN 500
        ELSE LET tier == Get(TEAM_TIERS, team, 2)
             IN  IF tier = 1 THEN 1000
                 ELSE IF tier = 2 THEN 700
                 ELSE 400

score_team_strength(rdata) ==
    LET team == Get(rdata, "team", "")
    IN  IF team = "" THEN 500
        ELSE LET tier == Get(TEAM_TIERS, team, 3)
             IN  IF tier = 1 THEN 1000
                 ELSE IF tier = 2 THEN 700
                 ELSE 400

compute_features(rdata) ==
    [ f \in FeatureSet |->
        IF f = "team_strength" THEN score_team_strength(rdata)
        ELSE rdata.signals[f] ]

\* None when neither a profile nor results could be scraped
fetch_rider_data(site, url) == site[url]

-----------------------------------------------------------------------------
(* ClassicsPredictor.predict / predict_from_data *)

\* a slip: a feature without a weight counting fully (default 1)
WeightedSumDefaultOne(w, features) ==
    RatSumSeq([ i \in DOMAIN FeatureNames |->
                  RatMul(Get(w, FeatureNames[i], One),
                         Rat(features[FeatureNames[i]], 1000)) ])

\* sum(self.weights.get(fname, 0) * fval for fname, fval in features.items())
WeightedSum(w, features) ==
    RatSumSeq([ i \in DOMAIN FeatureNames |->
                  RatMul(Get(w, FeatureNames[i], Zero),
                         Rat(features[FeatureNames[i]], 1000)) ])

\* round(score * 100, 1), in tenths
RoundedScore(score) == RoundHalfEven(RatMul(score, [num |-> 1000, den |-> 1]))

\* the record the loop body finds for one startlist entry, or None
Lookup(rd, site, url) ==
    IF DOMAIN rd # {} /\ url \in DOMAIN rd THEN Some(rd[url])
    ELSE fetch_rider_data(site, url)

\* the loop over the startlist: one appended dict per entry with a record,
\* in the order of the startlist
Collect(w, sl, rd, site) ==
    LET Found(rider_entry) == Lookup(rd, site, rider_entry.rider_url) # None
        found == SelectSeq(sl, Found)
    IN  [ i \in DOMAIN found |->
            LET rider_entry == found[i]
                rdata == Lookup(rd, site, rider_entry.rider_url)
                features == compute_features(rdata[1])
            IN  [ rider_name |-> rider_entry.rider_name,
                  rider_url |-> rider_entry.rider_url,
                  score |-> RoundedScore(WeightedSum(w, features)),
                  features |-> features ] ]

\* a slip: reverse=True dropped, the list comes out ascending
InsertAscending(s, p) ==
    LET k == Cardinality({i \in DOMAIN s : s[i].score <= p.score})
    IN  SubSeq(s, 1, k) \o <<p>> \o SubSeq(s, k + 1, Len(s))

\* a slip: an unstable sort that puts a later entry ahead of its equals
InsertUnstable(s, p) ==
    LET k == Cardinality({i \in DOMAIN s : s[i].score > p.score})
    IN  SubSeq(s, 1, k) \o <<p>> \o SubSeq(s, k + 1, Len(s))

\* where list.sort(key=score, reverse=True) leaves p among the already
\* sorted s: behind every element whose score is >= p's
InsertDesc(s, p) ==
    LET k == Cardinality({i \in DOMAIN s : s[i].score >= p.score})
    IN  SubSeq(s, 1, k) \o <<p>> \o SubSeq(s, k + 1, Len(s))

RECURSIVE SortDesc(_)
SortDesc(s) ==
    IF s = << >> THEN << >>
    ELSE InsertDesc(SortDesc(SubSeq(s, 1, Len(s) - 1)), s[Len(s)])

\* a slip: the ranked entries rebuilt without their features
AssignRanksBare(s) ==
    [ i \in DOMAIN s |->
        [ rider_name |-> s[i].rider_name, rider_url |-> s[i].rider_url,
          score |-> s[i].score, rank |-> i ] ]

\* for i, p in enumerate(predictions, 1): p["rank"] = i
AssignRanks(s) ==
    [ i \in DOMAIN s |->
        [ rider_name |-> s[i].rider_name, rider_url |-> s[i].rider_url,
          score |-> s[i].score, features |-> s[i].features, rank |-> i ] ]

PredictResult(w, sl, rd, site) == AssignRanks(SortDesc(Collect(w, sl, rd, site)))

\* a slip: the ranking written back into the caller's startlist
PredictReorderingStartlist(sl, rd, site) ==
    /\ ctor = "ok"
    /\ predictions' = Some(PredictResult(weights, sl, rd, site))
    /\ startlist' = [ i \in DOMAIN predictions'[1] |->
                        [ rider_url |-> predictions'[1][i].rider_url,
                          rider_name |-> predictions'[1][i].rider_name ] ]
    /\ UNCHANGED <<raw, ctor, weights, rider_data, live>>

\* predict appends to, sorts and ranks the list it builds itself
\* (predictions, lines 481-514); it assigns to no argument and not to
\* self.weights
Predict(sl, rd, site) ==
    /\ ctor = "ok"
    /\ predictions' = Some(PredictResult(weights, sl, rd, site))
    /\ UNCHANGED <<raw, ctor, weights, startlist, rider_data, live>>

-----------------------------------------------------------------------------
(* The predictor as a state machine: the arguments of the constructor and  *)
(* of the predict call are drawn when the behaviour starts                 *)

NoScorer ==
    /\ sp_pred = << >>
    /\ actual_top10 = << >>
    /\ scores = None

NoCalibrator ==
    /\ races = << >>
    /\ opt = None

NoFeatureCall == call = None

Init ==
    /\ raw \in {Some(v) : v \in RawWeightVectors} \cup {None}
    /\ ctor = "none"
    /\ weights = << >>
    /\ startlist \in StartLists
    /\ rider_data \in RiderDatas
    /\ live \in LiveSites(rider_data)
    /\ predictions = None
    /\ NoScorer
    /\ NoCalibrator
    /\ NoFeatureCall

ConstructStep ==
    /\ ctor = "none"
    /\ Construct(raw)
    /\ UNCHANGED <<scorerVars, calibratorVars, featureVars>>

PredictStep ==
    /\ Predict(startlist, rider_data, live)
    /\ UNCHANGED <<scorerVars, calibratorVars, featureVars>>

Next == ConstructStep \/ PredictStep

Spec == Init /\ [][Next]_vars

-----------------------------------------------------------------------------
(* Properties of the predictor *)

Returned == predictions # None

Output == predictions[1]

\* the argument the constructor normalises
RawGiven == IF raw = None THEN DEFAULT_WEIGHTS ELSE raw[1]

WithoutRank(p) ==
    [rider_name |-> p.rider_name, rider_url |-> p.rider_url,
     score |-> p.score, features |-> p.features]

\* the entries of a list that carry score v, in list order
WithScore(s, v) ==
    LET Hit(p) == p.score = v
    IN  SelectSeq(s, Hit)

\* the appended dicts in startlist order, before the sort
Unsorted == Collect(weights, startlist, rider_data, live)

\* C1: the ranks of a returned list are 1..N in list order and the score
\* never increases from one rank to the next
C1_RanksContiguousScoresNonIncreasing ==
    Returned =>
        /\ \A i \in DOMAIN Output : Output[i].rank = i
        /\ \A i \in DOMAIN Output :
             i < Len(Output) => Output[i].score >= Output[i + 1].score

\* a returned list of three entries with three different scores that the
\* sort had to reorder
C1_Witness ==
    /\ Returned
    /\ Len(Output) = 3
    /\ Output[1].score > Output[2].score
    /\ Output[2].score > Output[3].score
    /\ Unsorted[1].score < Unsorted[2].score

\* C2: athletes with equal rounded scores keep their startlist order: for
\* every score, the returned entries carrying it are the startlist's
\* entries carrying it, in startlist order
C2_TiesKeepStartlistOrder ==
    Returned =>
        \A v \in {Output[i].score : i \in DOMAIN Output} :
            WithScore([i \in DOMAIN Output |-> WithoutRank(Output[i])], v)
                = WithScore(Unsorted, v)

\* two different athletes tie behind an athlete who started after them
C2_Witness ==
    /\ Returned
    /\ Len(Output) = 3
    /\ Output[2].score = Output[3].score
    /\ Output[2].rider_url # Output[3].rider_url
    /\ Output[1].score > Output[2].score
    /\ Unsorted[3] = WithoutRank(Output[1])

\* sum(d.values()) for a dict of rationals
RECURSIVE RatSumValues(_)
RatSumValues(d) ==
    IF DOMAIN d = {} THEN Zero
    ELSE LET k == CHOOSE x \in DOMAIN d : TRUE
         IN  RatAdd(d[k], RatSumValues([j \in DOMAIN d \ {k} |-> d[j]]))

WeightTotal == RatSumValues(weights)

WeightsNormalized ==
    /\ ctor = "ok"
    /\ DOMAIN weights = DOMAIN RawGiven
    /\ WeightTotal = One
    /\ \A k \in DOMAIN weights :
         weights[k].num * SumValues(RawGiven) = RawGiven[k] * weights[k].den

\* C3 as stated: whatever vector the constructor is given, the stored
\* weights sum to 1 and each is its raw value over the raw sum
C3_AnyVectorNormalized == ctor # "none" => WeightsNormalized

\* C3 amended: the same for every vector whose entries do not sum to zero
C3_NonZeroSumNormalized ==
    (ctor # "none" /\ SumValues(RawGiven) # 0) => WeightsNormalized

\* a caller's vector with a sum other than 1 was stored
C3_Witness ==
    /\ ctor = "ok"
    /\ raw # None
    /\ SumValues(RawGiven) > 1
    /\ \E k \in DOMAIN weights : weights[k].den > 1

\* the sum over the features in S of weight * signal
RECURSIVE WeightedOver(_, _)
WeightedOver(S, features) ==
    IF S = {} THEN Zero
    ELSE LET f == CHOOSE y \in S : TRUE
         IN  RatAdd(Rat(weights[f].num * features[f], weights[f].den * 1000),
                    WeightedOver(S \ {f}, features))

\* 100 * (sum over the features that carry a weight of weight * signal),
\* rounded to one decimal, in tenths
ExpectedScore(features) ==
    RoundHalfEven(RatMul([num |-> 1000, den |-> 1],
                         WeightedOver(FeatureSet \cap DOMAIN weights, features)))

\* C4: every returned score is the rounded, scaled weighted sum over the 13
\* features; a feature without a weight counts 0 and a weight whose key is
\* no feature adds nothing
C4_ScoreIsRoundedWeightedSum ==
    Returned =>
        \A i \in DOMAIN Output :
            /\ DOMAIN Output[i].features = FeatureSet
            /\ Output[i].score = ExpectedScore(Output[i].features)

\* an athlete was scored under a vector that misses features, carries a
\* key that is no feature, and gives a score that needed rounding
C4_Witness ==
    /\ Returned
    /\ Output # << >>
    /\ "bogus_feature" \in DOMAIN weights
    /\ weights["bogus_feature"].num > 0
    /\ "classic_pedigree" \in DOMAIN weights
    /\ weights["classic_pedigree"].num > 0
    /\ \E i \in DOMAIN Output : Output[i].score % 10 # 0

\* C5 as stated: a startlist entry whose rider_url is no key of rider_data
\* leaves no entry in the returned list
C5_MissingRiderSkipped ==
    Returned =>
        \A i \in DOMAIN Output : Output[i].rider_url \in DOMAIN rider_data

-----------------------------------------------------------------------------
(* score_predictions (tests/test_backtest_2025.py) *)

MaxPred == 12         \* longest prediction list handed to score_predictions
MaxKnown == 12        \* most known finishers in an actual order

TopTen == 10
TopFive == 5
TopThree == 3
DefaultRankError == 20

\* the athletes of the backtest database
ScoreRiders ==
    << "rider/01", "rider/02", "rider/03", "rider/04", "rider/05", "rider/06",
       "rider/07", "rider/08", "rider/09", "rider/10", "rider/11", "rider/12",
       "rider/13", "rider/14" >>

\* n athletes of the database, starting behind the from-th, every step-th
Run(n, from, step) ==
    [i \in 1 .. n |->
        ScoreRiders[((from + (i - 1) * step) % Len(ScoreRiders)) + 1]]

\* prediction lists: ranked entries, as predict returns them
PredLists ==
    { [i \in 1 .. n |-> [rider_url |-> Run(n, from, step)[i], rank |-> i]] :
        n \in 0 .. MaxPred, from \in 0 .. 2, step \in {1, Len(ScoreRiders) - 1} }

\* a finishing order: the known finishers with a None ahead of the known
\* finisher j for every j in gaps, and trailing further None entries
RECURSIVE WithNulls(_, _, _, _)
WithNulls(known, j, gaps, trailing) ==
    IF j > Len(known) THEN [i \in 1 .. trailing |-> Null]
    ELSE (IF j \in gaps THEN <<Null>> ELSE << >>) \o <<known[j]>>
             \o WithNulls(known, j + 1, gaps, trailing)

ActualLists ==
    { WithNulls(Run(k, from, 1), 1, gaps, trailing) :
        k \in 0 .. MaxKnown, from \in {0, 2},
        gaps \in {{}, {1}, {2, 5}, {3, 7}}, trailing \in {0, 2} }

\* a slip: the None entries are not filtered out
ActualKnownUnfiltered(actual) == actual

\* [url for url in actual_top10 if url is not None]
ActualKnown(actual) ==
    LET Known(url) == url # Null
    IN  SelectSeq(actual, Known)

\* [p["rider_url"] for p in predictions]
PredUrls(preds) == [i \in DOMAIN preds |-> preds[i].rider_url]

\* a slip: the slice forgotten, the whole list taken
WholeSet(s, n) == Range(s)

\* set(s[:n])
TopSet(s, n) == Range(Prefix(s, n))

\* hits / len(actual_set) if actual_set else 0
HitRate(actual_set, pred_set) ==
    IF actual_set # {}
    THEN Rat(Cardinality(actual_set \cap pred_set), Cardinality(actual_set))
    ELSE Zero

\* 1.0 if actual_winner in set(pred_urls[:n]) else 0.0
WinnerIn(actual_winner, pred_urls, n) ==
    IF actual_winner \in TopSet(pred_urls, n) THEN One ELSE Zero

\* a slip: the 0-based index taken for the rank
PredRankZeroBased(pred_urls, url) ==
    (CHOOSE i \in DOMAIN pred_urls :
        pred_urls[i] = url /\ \A j \in 1 .. i - 1 : pred_urls[j] # url) - 1

\* pred_urls.index(url) + 1
PredRank(pred_urls, url) ==
    CHOOSE i \in DOMAIN pred_urls :
        pred_urls[i] = url /\ \A j \in 1 .. i - 1 : pred_urls[j] # url

\* the loop over enumerate(actual_known[:10], 1), from actual_rank on
RECURSIVE RankErrors(_, _, _)
RankErrors(known10, pred_urls, actual_rank) ==
    IF actual_rank > Len(known10) THEN << >>
    ELSE LET url == known10[actual_rank]
             rest == RankErrors(known10, pred_urls, actual_rank + 1)
         IN  IF url \in Range(pred_urls)
             THEN <<Abs(actual_rank - PredRank(pred_urls, url))>> \o rest
             ELSE rest

\* sum(rank_errors) / len(rank_errors) if rank_errors else 20
AvgRankError(rank_errors) ==
    IF rank_errors # << >>
    THEN Rat(SumSeq(rank_errors), Len(rank_errors))
    ELSE [num |-> DefaultRankError, den |-> 1]

\* a slip: the early return reporting no rank error at all
SentinelScoresNoError ==
    [ top10_hit_rate |-> Zero, top5_hit_rate |-> Zero, winner_in_top3 |-> Zero,
      winner_in_top5 |-> Zero, avg_rank_error |-> Zero ]

\* the early return for an actual order without a known finisher
SentinelScores ==
    [ top10_hit_rate |-> Zero, top5_hit_rate |-> Zero, winner_in_top3 |-> Zero,
      winner_in_top5 |-> Zero, avg_rank_error |-> [num |-> 20, den |-> 1] ]

score_predictions(preds, actual) ==
    LET actual_known == ActualKnown(actual)
        pred_urls == PredUrls(preds)
    IN  IF actual_known = << >> THEN SentinelScores
        ELSE [ top10_hit_rate |->
                 HitRate(TopSet(actual_known, TopTen), TopSet(pred_urls, TopTen)),
               top5_hit_rate |->
                 HitRate(TopSet(actual_known, TopFive), TopSet(pred_urls, TopFive)),
               winner_in_top3 |-> WinnerIn(actual_known[1], pred_urls, TopThree),
               winner_in_top5 |-> WinnerIn(actual_known[1], pred_urls, TopFive),
               avg_rank_error |->
                 AvgRankError(RankErrors(Prefix(actual_known, TopTen), pred_urls, 1)) ]

NoPredictor ==
    /\ raw = None
    /\ ctor = "none"
    /\ weights = << >>
    /\ startlist = << >>
    /\ rider_data = << >>
    /\ live = [u \in URLs |-> None]
    /\ predictions = None

InitScore ==
    /\ NoPredictor
    /\ sp_pred \in PredLists
    /\ actual_top10 \in ActualLists
    /\ scores = None
    /\ NoCalibrator
    /\ NoFeatureCall

ScoreStep ==
    /\ scores' = Some(score_predictions(sp_pred, actual_top10))
    /\ UNCHANGED <<predictorVars, sp_pred, actual_top10, calibratorVars, featureVars>>

NextScore == ScoreStep

SpecScore == InitScore /\ [][NextScore]_vars

-----------------------------------------------------------------------------
(* Properties of score_predictions *)

Scored == scores # None

Result == scores[1]

\* the identities of the actual order that are not None, in finishing order
KnownFinishers ==
    LET IsRider(url) == url \in Range(ScoreRiders)
    IN  SelectSeq(actual_top10, IsRider)

NumKnown == Len(KnownFinishers)

PredictedUrls == {sp_pred[i].rider_url : i \in DOMAIN sp_pred}

\* the first n predicted identities
PredictedTop(n) == {sp_pred[i].rider_url : i \in 1 .. Min(n, Len(sp_pred))}

\* the first n known actual identities
ActualTop(n) == {KnownFinishers[i] : i \in 1 .. Min(n, NumKnown)}

IsRatio(r, n, d) == r.num * d = n * r.den

InUnitInterval(r) == r.num >= 0 /\ r.num <= r.den

\* the known finishers sit at predicted positions 1..k in their actual order
KnownPredictedInOrder ==
    /\ Len(sp_pred) >= NumKnown
    /\ \A i \in 1 .. NumKnown : sp_pred[i].rider_url = KnownFinishers[i]

\* C6: when the actual order has None entries and the k >= 1 known athletes
\* are predicted at positions 1..k in their actual order, the top-10 hit
\* rate is 1 and the average rank error is 0
C6_NullsDoNotShiftPositions ==
    ( /\ Scored
      /\ \E i \in DOMAIN actual_top10 : actual_top10[i] = Null
      /\ NumKnown >= 1
      /\ KnownPredictedInOrder )
    => /\ Result.top10_hit_rate = One
       /\ Result.avg_rank_error = Zero

\* an actual top-10 with two None entries among eight known athletes, who
\* are predicted first to eighth ahead of other athletes
C6_Witness ==
    /\ Scored
    /\ Len(actual_top10) = 10
    /\ actual_top10[3] = Null
    /\ actual_top10[8] = Null
    /\ NumKnown = 8
    /\ KnownPredictedInOrder
    /\ Len(sp_pred) > 8

\* C7: the top-10 (top-5) hit rate is the share of the first 10 (5) known
\* actual identities found among the first 10 (5) predicted ones, 0 when
\* there is no known actual identity, and always within [0, 1]
C7_HitRatesAreSetRatios ==
    Scored =>
        /\ IF ActualTop(10) = {} THEN Result.top10_hit_rate = Zero
           ELSE IsRatio(Result.top10_hit_rate,
                        Cardinality(PredictedTop(10) \cap ActualTop(10)),
                        Cardinality(ActualTop(10)))
        /\ IF ActualTop(5) = {} THEN Result.top5_hit_rate = Zero
           ELSE IsRatio(Result.top5_hit_rate,
                        Cardinality(PredictedTop(5) \cap ActualTop(5)),
                        Cardinality(ActualTop(5)))
        /\ InUnitInterval(Result.top10_hit_rate)
        /\ InUnitInterval(Result.top5_hit_rate)

\* more than ten predicted and more than ten known athletes; athletes of
\* the actual top ten are predicted both inside and outside the first ten,
\* and the two rates differ
C7_Witness ==
    /\ Scored
    /\ Len(sp_pred) > 10
    /\ NumKnown > 10
    /\ ActualTop(10) \cap PredictedTop(10) # {}
    /\ ActualTop(10) \cap (PredictedUrls \ PredictedTop(10)) # {}
    /\ ActualTop(5) \cap (PredictedTop(10) \ PredictedTop(5)) # {}
    /\ Result.top10_hit_rate # Result.top5_hit_rate

\* position of the first entry of an identity in the prediction list
PredictedRank(url) ==
    CHOOSE r \in DOMAIN sp_pred :
        sp_pred[r].rider_url = url /\ \A q \in 1 .. r - 1 : sp_pred[q].rider_url # url

\* the known finishers, by position among the known, that count for the
\* rank error: the first ten, when predicted at all
Matched == {i \in 1 .. Min(10, NumKnown) : KnownFinishers[i] \in PredictedUrls}

\* 1-based position of the i-th known finisher in the whole actual order
FinishingPosition(i) ==
    CHOOSE j \in DOMAIN actual_top10 :
        /\ actual_top10[j] = KnownFinishers[i]
        /\ Cardinality({h \in 1 .. j : actual_top10[h] # Null}) = i

RECURSIVE ErrorSumByFinish(_)
ErrorSumByFinish(S) ==
    IF S = {} THEN 0
    ELSE LET i == CHOOSE x \in S : TRUE
         IN  Abs(FinishingPosition(i) - PredictedRank(KnownFinishers[i]))
                + ErrorSumByFinish(S \ {i})

RECURSIVE ErrorSumByKnown(_)
ErrorSumByKnown(S) ==
    IF S = {} THEN 0
    ELSE LET i == CHOOSE x \in S : TRUE
         IN  Abs(i - PredictedRank(KnownFinishers[i])) + ErrorSumByKnown(S \ {i})

\* C8 as stated: the average rank error is the mean of |finishing position
\* in the actual order - predicted rank| over the matched athletes, and 20
\* when no athlete is matched
C8_ErrorAgainstFinishingPosition ==
    Scored =>
        IF Matched = {} THEN Result.avg_rank_error = [num |-> 20, den |-> 1]
        ELSE IsRatio(Result.avg_rank_error, ErrorSumByFinish(Matched),
                     Cardinality(Matched))

\* C8 amended: the position is the one among the known (non-None) entries
C8_ErrorAgainstKnownPosition ==
    Scored =>
        IF Matched = {} THEN Result.avg_rank_error = [num |-> 20, den |-> 1]
        ELSE IsRatio(Result.avg_rank_error, ErrorSumByKnown(Matched),
                     Cardinality(Matched))

\* a None entry precedes matched athletes, some athletes are matched and
\* some are not, and the mean error is a proper fraction
C8_Witness ==
    /\ Scored
    /\ actual_top10 # << >>
    /\ actual_top10[1] = Null
    /\ Matched # {}
    /\ Cardinality(Matched) < Min(10, NumKnown)
    /\ Result.avg_rank_error.den > 1

\* C9: an actual order without a known identity yields the sentinel result
C9_NoKnownFinisherSentinel ==
    (Scored /\ NumKnown = 0) =>
        /\ Result.top10_hit_rate = Zero
        /\ Result.top5_hit_rate = Zero
        /\ Result.winner_in_top3 = Zero
        /\ Result.winner_in_top5 = Zero
        /\ Result.avg_rank_error = [num |-> 20, den |-> 1]

\* an actual order of None entries only, scored against a non-empty list
C9_Witness ==
    /\ Scored
    /\ actual_top10 # << >>
    /\ NumKnown = 0
    /\ sp_pred # << >>

-----------------------------------------------------------------------------
(* run_backtest and optimize_weights (tests/test_backtest_2025.py) *)

MaxRaces == 2         \* most races in the race set

RecClimber == Rec("cofidis", 500, 300, 1000, 600)

\* the race set is a stretch of this calendar; each race carries what
\* build_rider_data yields for its date
Calendar ==
    << [ name |-> "sprinters classic", is_sprinters_race |-> TRUE,
         rider_data |-> [u \in URLs |-> RecordOf(u)],
         actual_top10 |-> <<"rider/c", "rider/a">> ],
       [ name |-> "cobbled classic", is_sprinters_race |-> FALSE,
         rider_data |-> [u \in URLs |-> RecordOf(u)],
         actual_top10 |-> <<"rider/a", Null, "rider/c", "rider/b">> ],
       [ name |-> "hilly classic", is_sprinters_race |-> FALSE,
         rider_data |-> [u \in URLs |->
                            IF u = "rider/b" THEN RecClimber ELSE RecordOf(u)],
         actual_top10 |-> <<"rider/b", "rider/a", Null, "rider/c">> ],
       [ name |-> "unknown finishers", is_sprinters_race |-> FALSE,
         rider_data |-> [u \in URLs |-> RecordOf(u)],
         actual_top10 |-> <<Null, Null>> ] >>

RaceSets ==
    UNION { { SubSeq(Calendar, first, first + n - 1) :
                first \in 1 .. Len(Calendar) - n + 1 } : n \in 0 .. MaxRaces }

\* build_startlist(): every rider of the database
build_startlist == <<Entry("rider/a"), Entry("rider/b"), Entry("rider/c")>>

\* nothing is scraped: every rider is a key of rider_data
NoSite == [u \in URLs |-> None]

\* a slip: the sprinters' races scored like the others
AllScoresUnskipped(w, rs) ==
    [ i \in DOMAIN rs |->
        CHOOSE result \in
            { score_predictions(preds, rs[i].actual_top10) :
                preds \in { PredictResult(w, build_startlist,
                                          rs[i].rider_data, NoSite) } } :
            TRUE ]

\* the scores of the races of the set that are not skipped, in the order of
\* the set; the predictions of a race are computed, then scored
AllScores(w, rs) ==
    LET IsScored(race) == ~race.is_sprinters_race
        scored == SelectSeq(rs, IsScored)
    IN  [ i \in DOMAIN scored |->
            CHOOSE result \in
                { score_predictions(preds, scored[i].actual_top10) :
                    preds \in { PredictResult(w, build_startlist,
                                              scored[i].rider_data, NoSite) } } :
                TRUE ]

\* sum(s[key] for s in all_scores) / n
MeanOf(all_scores, key) ==
    RatMul(RatSumSeq([i \in DOMAIN all_scores |-> all_scores[i][key]]),
           [num |-> 1, den |-> Len(all_scores)])

\* run_backtest(weights, races); weights=None means the default weights. The
\* predictor is constructed before the loop over the races, and the
\* constructor divides by the sum of the weights
run_backtest(w, rs) ==
    LET rawv == IF w = None THEN DEFAULT_WEIGHTS ELSE w[1]
        total == SumValues(rawv)
    IN  IF DOMAIN rawv # {} /\ total = 0 THEN <<"ZeroDivisionError">>
        ELSE LET all_scores == AllScores(Normalize(rawv, total), rs)
             IN  IF Len(all_scores) = 0 THEN << >>
                 ELSE [ avg_top10_hit |-> MeanOf(all_scores, "top10_hit_rate"),
                        avg_top5_hit |-> MeanOf(all_scores, "top5_hit_rate"),
                        winner_top3_pct |-> MeanOf(all_scores, "winner_in_top3"),
                        winner_top5_pct |-> MeanOf(all_scores, "winner_in_top5"),
                        avg_rank_error |-> MeanOf(all_scores, "avg_rank_error") ]

\* the candidate values of the search, in hundredths
cp_steps == <<15, 20, 25, 30, 35>>
tm_steps == <<5, 10, 15, 20>>
ss_steps == <<5, 10, 15>>
py_steps == <<5, 10, 15>>
prep_steps == <<5, 10, 15>>
sp_steps == <<3, 5, 8>>

GridSize ==
    Len(cp_steps) * Len(tm_steps) * Len(ss_steps) * Len(py_steps)
        * Len(prep_steps) * Len(sp_steps)

\* the idx-th combination in the order of the nested loops (cp outermost,
\* sp innermost)
GridPoint(idx) ==
    LET i == idx - 1
        n6 == Len(sp_steps)
        n5 == n6 * Len(prep_steps)
        n4 == n5 * Len(py_steps)
        n3 == n4 * Len(ss_steps)
        n2 == n3 * Len(tm_steps)
    IN  [ cp |-> cp_steps[(i \div n2) + 1],
          tm |-> tm_steps[((i % n2) \div n3) + 1],
          ss |-> ss_steps[((i % n3) \div n4) + 1],
          py |-> py_steps[((i % n4) \div n5) + 1],
          prep |-> prep_steps[((i % n5) \div n6) + 1],
          sp |-> sp_steps[(i % n6) + 1] ]

\* Grid points whose exact residual sits on a band edge while the binary64
\* value of 1.0 - major_sum (four entries) or of remaining - prep - sp (six
\* entries) falls just outside the band, so that the comparison prunes them
FloatEdgePruned ==
    { <<15, 5, 15, 5>>, <<15, 10, 10, 5>>, <<15, 15, 5, 5>>,
      <<20, 5, 10, 5>>, <<25, 5, 5, 5>>, <<30, 20, 15, 15>>,
      <<35, 15, 15, 15>>, <<35, 20, 10, 15>>, <<35, 20, 15, 10>>,
      <<20, 20, 15, 15, 15, 5>>, <<25, 15, 15, 15, 15, 5>>,
      <<25, 20, 10, 15, 15, 5>>, <<25, 20, 15, 15, 10, 5>>,
      <<30, 10, 15, 15, 15, 5>>, <<30, 15, 15, 15, 10, 5>>,
      <<30, 20, 5, 15, 15, 5>>, <<30, 20, 10, 15, 10, 5>>,
      <<30, 20, 15, 5, 15, 5>>, <<30, 20, 15, 10, 10, 5>>,
      <<35, 10, 15, 15, 10, 5>>, <<35, 15, 5, 15, 15, 5>>,
      <<35, 15, 10, 15, 10, 5>>, <<35, 15, 15, 5, 15, 5>>,
      <<35, 15, 15, 10, 10, 5>>, <<35, 20, 5, 10, 15, 5>>,
      <<35, 20, 5, 15, 10, 5>>, <<35, 20, 10, 5, 15, 5>>,
      <<35, 20, 10, 10, 10, 5>>, <<35, 20, 15, 5, 10, 5>> }

\* remaining = 1.0 - (cp + tm + ss + py), in hundredths
Remaining(g) == 100 - (g.cp + g.tm + g.ss + g.py)

\* rest = remaining - prep - sp, in hundredths
Rest(g) == Remaining(g) - g.prep - g.sp

\* a slip: only the upper edge of each band tested
PrunedAbove(g) ==
    \/ Remaining(g) > 60
    \/ <<g.cp, g.tm, g.ss, g.py>> \in FloatEdgePruned
    \/ Rest(g) > 45
    \/ <<g.cp, g.tm, g.ss, g.py, g.prep, g.sp>> \in FloatEdgePruned

\* the two `continue` tests of the loops
Pruned(g) ==
    \/ Remaining(g) < 20
    \/ Remaining(g) > 60
    \/ <<g.cp, g.tm, g.ss, g.py>> \in FloatEdgePruned
    \/ Rest(g) < 10
    \/ Rest(g) > 45
    \/ <<g.cp, g.tm, g.ss, g.py, g.prep, g.sp>> \in FloatEdgePruned

\* the weights dict of a grid point, in ten-thousandths
CandidateWeights(g) ==
    [ classic_pedigree |-> g.cp * 100, terrain_match |-> g.tm * 100,
      specialty_score |-> g.ss * 100, previous_year |-> g.py * 100,
      preparation |-> g.prep * 100, sprint_capability |-> g.sp * 100,
      injury_penalty |-> Rest(g) * 25, recent_form |-> Rest(g) * 15,
      age_distance_fit |-> Rest(g) * 15, momentum |-> Rest(g) * 20,
      team_strength |-> Rest(g) * 25 ]

\* max(0, 1.0 - avg_rank_error / 20)
RankTerm(metrics) ==
    RatMax(Zero, RatSub(One, RatMul(metrics.avg_rank_error, [num |-> 1, den |-> 20])))

\* the composite score optimize_weights maximises
Composite(metrics) ==
    RatSumSeq(<< RatMul([num |-> 30, den |-> 100], metrics.avg_top10_hit),
                 RatMul([num |-> 30, den |-> 100], metrics.avg_top5_hit),
                 RatMul([num |-> 20, den |-> 100], metrics.winner_top5_pct),
                 RatMul([num |-> 10, den |-> 100], metrics.winner_top3_pct),
                 RatMul([num |-> 10, den |-> 100], RankTerm(metrics)) >>)

\* a slip: the search starting from the default weights as its best so far
OptStartFromDefault ==
    [ pc |-> "search", idx |-> 1, best_score |-> [num |-> -1, den |-> 1],
      best_weights |-> Some(DEFAULT_WEIGHTS), best_metrics |-> None, tested |-> 0,
      passed |-> None ]

\* the locals of optimize_weights before the loops; passed is the weights
\* dict last handed to run_backtest
OptStart ==
    [ pc |-> "search", idx |-> 1, best_score |-> [num |-> -1, den |-> 1],
      best_weights |-> None, best_metrics |-> None, tested |-> 0,
      passed |-> None ]

InitOpt ==
    /\ NoPredictor
    /\ NoScorer
    /\ races \in RaceSets
    /\ opt = OptStart
    /\ NoFeatureCall

\* a grid point one of the two band tests skips
OptPrune ==
    /\ opt.pc = "search"
    /\ opt.idx <= GridSize
    /\ Pruned(GridPoint(opt.idx))
    /\ opt' = [opt EXCEPT !.idx = @ + 1]
    /\ UNCHANGED <<predictorVars, scorerVars, races, featureVars>>

\* a slip: >= for >, so that a later candidate replaces an equal earlier one
ImprovesOrTies(score, best_score) == RatLeq(best_score, score)

\* if score > best_score
Improves(score, best_score) == RatLess(best_score, score)

\* a grid point that is backtested and compared with the best so far
OptEvaluate ==
    /\ opt.pc = "search"
    /\ opt.idx <= GridSize
    /\ ~Pruned(GridPoint(opt.idx))
    /\ \E w \in {CandidateWeights(GridPoint(opt.idx))} :
       \E metrics \in {run_backtest(Some(w), races)} :
          IF DOMAIN metrics = {}
          THEN opt' = [opt EXCEPT !.idx = @ + 1, !.passed = Some(w)]
          ELSE \E score \in {Composite(metrics)} :
                  IF Improves(score, opt.best_score)
                  THEN opt' = [opt EXCEPT !.idx = @ + 1,
                                          !.passed = Some(w),
                                          !.tested = @ + 1,
                                          !.best_score = score,
                                          !.best_weights = Some(w),
                                          !.best_metrics = Some(metrics)]
                  ELSE opt' = [opt EXCEPT !.idx = @ + 1, !.passed = Some(w),
                                          !.tested = @ + 1]
    /\ UNCHANGED <<predictorVars, scorerVars, races, featureVars>>

\* return best_weights, best_metrics
OptReturn ==
    /\ opt.pc = "search"
    /\ opt.idx > GridSize
    /\ opt' = [opt EXCEPT !.pc = "done"]
    /\ UNCHANGED <<predictorVars, scorerVars, races, featureVars>>

NextOpt == OptPrune \/ OptEvaluate \/ OptReturn

SpecOpt == InitOpt /\ [][NextOpt]_vars

-----------------------------------------------------------------------------
(* Properties of the calibrator *)

OptDone == opt # None /\ opt.pc = "done"

\* C10 as stated: on the race set it searched, the composite objective of
\* the weights optimize_weights returns is at least that of the default
\* weights
C10_SelectedNotWorseThanDefault ==
    (OptDone /\ opt.best_weights # None) =>
        RatLeq(Composite(run_backtest(None, races)),
               Composite(opt.best_metrics[1]))

\* the grid points that reach run_backtest
Unpruned == {i \in 1 .. GridSize : ~Pruned(GridPoint(i))}

\* the metrics of every grid point that reaches run_backtest, for the race
\* set of the current behaviour
MetricsOf == [i \in Unpruned |-> run_backtest(Some(CandidateWeights(GridPoint(i))), races)]

\* the grid points that are scored: their backtest gave metrics
Evaluated == {i \in Unpruned : DOMAIN MetricsOf[i] # {}}

\* the position in the search order of the returned weights
ReturnedIndex ==
    CHOOSE i \in Unpruned : opt.best_weights = Some(CandidateWeights(GridPoint(i)))

\* C11: the pair optimize_weights returns is the candidate of highest
\* composite score among the evaluated candidates, the first of them in the
\* search order (cp, tm, ss, py, prep, sp) when several reach that score, and
\* the metrics returned are the metrics of that candidate
C11_FirstBestCandidateReturned ==
    (OptDone /\ opt.best_weights # None) =>
        \E metrics_of \in {MetricsOf} :
            LET evaluated == {i \in Unpruned : DOMAIN metrics_of[i] # {}}
                first == ReturnedIndex
            IN  /\ first \in evaluated
                /\ opt.best_metrics = Some(metrics_of[first])
                /\ opt.best_score = Composite(metrics_of[first])
                /\ \A j \in evaluated :
                      /\ RatLeq(Composite(metrics_of[j]), opt.best_score)
                      /\ Composite(metrics_of[j]) = opt.best_score => first <= j

\* a search that met a later candidate equal to the returned one, and a
\* candidate below it
C11_Witness ==
    /\ OptDone
    /\ opt.best_weights # None
    /\ \E metrics_of \in {MetricsOf} :
          /\ \E j \in Unpruned :
                /\ DOMAIN metrics_of[j] # {}
                /\ j > ReturnedIndex
                /\ Composite(metrics_of[j]) = opt.best_score
          /\ \E j \in Unpruned :
                /\ DOMAIN metrics_of[j] # {}
                /\ RatLess(Composite(metrics_of[j]), opt.best_score)

-----------------------------------------------------------------------------
(* The feature functions, called one at a time.                            *)
(*                                                                         *)
(* Strings.  A date string is the list of the parts str.split("-") cuts it *)
(* into, a part being the number int() reads from it, or NaN when int()    *)
(* rejects it.  A URL or a race class is a list of tokens, cut finely      *)
(* enough that the substring tests of the code fall on token boundaries;   *)
(* in a URL the separator "/" is a token of its own.                       *)

NaN == -1

RatMin(a, b) == IF RatLess(b, a) THEN b ELSE a

RatDiv(a, b) ==
    IF a.num = 0 THEN Zero
    ELSE IF b.num > 0 THEN Rat(a.num * b.den, a.den * b.num)
    ELSE Rat(-(a.num * b.den), a.den * (-b.num))

\* an integer as a float
RatOf(n) == [num |-> n, den |-> 1]

\* the outcome of a call: a returned value or a raised exception
Ret(v) == [exc |-> "", value |-> v, ulps |-> 0]

Raise(e) == [exc |-> e, value |-> Zero, ulps |-> 0]

\* sub in s
IsInfix(sub, s) ==
    \E i \in 0 .. (Len(s) - Len(sub)) : SubSeq(s, i + 1, i + Len(sub)) = sub

-----------------------------------------------------------------------------
(* datetime.date *)

Date(year, month, day) == [year |-> year, month |-> month, day |-> day]

IsLeap(year) == year % 4 = 0 /\ (year % 100 # 0 \/ year % 400 = 0)

DaysInMonth(year, month) ==
    IF month = 2 THEN (IF IsLeap(year) THEN 29 ELSE 28)
    ELSE IF month \in {4, 6, 9, 11} THEN 30
    ELSE 31

DaysBeforeMonth(year, month) ==
    << 0, 31, 59, 90, 120, 151, 181, 212, 243, 273, 304, 334 >>[month]
    + (IF month > 2 /\ IsLeap(year) THEN 1 ELSE 0)

DaysBeforeYear(year) ==
    LET y == year - 1
    IN  y * 365 + y \div 4 - y \div 100 + y \div 400

\* date(year, month, day) raises ValueError outside these ranges
ValidDate(year, month, day) ==
    /\ year \in 1 .. 9999
    /\ month \in 1 .. 12
    /\ day \in 1 .. DaysInMonth(year, month)

ToOrdinal(d) == DaysBeforeYear(d.year) + DaysBeforeMonth(d.year, d.month) + d.day

\* (a - b).days
Days(a, b) == ToOrdinal(a) - ToOrdinal(b)

\* d - timedelta(days = n), within the year before d and the year after
MinusDays(d, n) ==
    LET ordinal == ToOrdinal(d) - n
        year == CHOOSE y \in (d.year - 1) .. (d.year + 1) :
                    DaysBeforeYear(y) < ordinal /\ ordinal <= DaysBeforeYear(y + 1)
        rest == ordinal - DaysBeforeYear(year)
        month == CHOOSE m \in 1 .. 12 :
                     /\ DaysBeforeMonth(year, m) < rest
                     /\ rest <= DaysBeforeMonth(year, m) + DaysInMonth(year, m)
    IN  Date(year, month, rest - DaysBeforeMonth(year, month))

-----------------------------------------------------------------------------
(* Result records *)

NoneValue == [type |-> "NoneType"]

\* a str date, by its parts
DateStr(parts) == [type |-> "str", parts |-> parts]

\* "Y-M-D" of a date
Iso(d) == DateStr(<<d.year, d.month, d.day>>)

IntRank(n) == [type |-> "int", value |-> n]

\* a str rank: its text, what isdigit() says and what int() reads (NaN when
\* int() raises ValueError)
StrRank(text, isdigit, value) ==
    [type |-> "str", text |-> text, isdigit |-> isdigit, value |-> value]

\* the exceptions the loops over the results catch
Caught == {"KeyError", "ValueError", "IndexError"}

parse_date(date_str) ==
    IF date_str.type # "str" THEN Raise("AttributeError")
    ELSE LET parts == date_str.parts
         IN  IF parts[1] = NaN THEN Raise("ValueError")
             ELSE IF Len(parts) < 2 THEN Raise("IndexError")
             ELSE IF parts[2] = NaN THEN Raise("ValueError")
             ELSE IF Len(parts) < 3 THEN Raise("IndexError")
             ELSE IF parts[3] = NaN THEN Raise("ValueError")
             ELSE IF ~ValidDate(parts[1], parts[2], parts[3]) THEN Raise("ValueError")
             ELSE Ret(Date(parts[1], parts[2], parts[3]))

\* _parse_date(r["date"])
result_date(r) ==
    IF "date" \notin DOMAIN r THEN Raise("KeyError") ELSE parse_date(r.date)

\* the date of r when the try block passes
Dated(r) == result_date(r).exc = ""

\* the exception that leaves the loop: that of the first record whose date
\* raises one the except clause does not name
Uncaught(results) ==
    {i \in DOMAIN results : result_date(results[i]).exc \notin Caught \cup {""}}

FirstOf(S) == CHOOSE i \in S : \A j \in S : i <= j

\* r.get("rank")
get_rank(r) == IF "rank" \in DOMAIN r THEN r.rank ELSE NoneValue

\* r.get("stage_url", "")
get_stage_url(r) == IF "stage_url" \in DOMAIN r THEN r.stage_url ELSE << >>

\* str(r.get("class", ""))
get_class(r) == IF "class" \in DOMAIN r THEN r.class ELSE << >>

\* isinstance(rank, str) and rank.isdigit()
IsDigitStr(rank) == rank.type = "str" /\ rank.isdigit

\* int(rank) raises ValueError
BadInt(rank) == IsDigitStr(rank) /\ rank.value = NaN

\* max(0.0, 1.0 - (rank - 1) * step)
PlaceScore(rank, step) == RatMax(Zero, RatSub(One, RatMul(RatOf(rank - 1), step)))

-----------------------------------------------------------------------------
(* _score_recent_form *)

window_days == 90

class_w(race_class) ==
    IF IsInfix(<<"UWT">>, race_class) \/ IsInfix(<<"WC">>, race_class) THEN Rat(13, 10)
    ELSE IF IsInfix(<<"Pro">>, race_class) \/ IsInfix(<<"1.">>, race_class) THEN One
    ELSE Rat(7, 10)

\* a slip: every result of the window weighs the same
recency_flat(days_ago, window) == One

recency_w(days_ago, window) ==
    RatSub(One, RatMul(Rat(days_ago, window), Rat(1, 2)))

\* result_score of _score_recent_form; what is not a placing counts as 0
FormScore(rank) ==
    IF rank.type = "int" /\ rank.value > 0 THEN PlaceScore(rank.value, Rat(1, 20))
    ELSE IF IsDigitStr(rank) THEN PlaceScore(rank.value, Rat(1, 20))
    ELSE Zero

score_recent_form(results, race_date, window) ==
    LET Relevant(r) ==
            Dated(r) /\ Days(race_date, result_date(r).value) \in 1 .. window
        relevant == SelectSeq(results, Relevant)
        weight == [ i \in DOMAIN relevant |->
                      RatMul(recency_w(Days(race_date, result_date(relevant[i]).value), window),
                             class_w(get_class(relevant[i]))) ]
        total_score ==
            RatSumSeq([ i \in DOMAIN relevant |->
                          RatMul(FormScore(get_rank(relevant[i])), weight[i]) ])
        total_weight == RatSumSeq(weight)
    IN  IF Uncaught(results) # {}
        THEN Raise(result_date(results[FirstOf(Uncaught(results))]).exc)
        ELSE IF relevant = << >> THEN Ret(Zero)
        ELSE IF \E i \in DOMAIN relevant : BadInt(get_rank(relevant[i]))
        THEN Raise("ValueError")
        ELSE Ret(IF RatLess(Zero, total_weight)
                 THEN RatDiv(total_score, total_weight) ELSE Zero)

-----------------------------------------------------------------------------
(* _score_classic_pedigree *)

years_back == 5

\* result_score of _score_classic_pedigree
PedigreeScore(rank) ==
    IF rank.type = "int" /\ rank.value > 0 THEN PlaceScore(rank.value, Rat(18, 1000))
    ELSE IF IsDigitStr(rank) THEN PlaceScore(rank.value, Rat(18, 1000))
    ELSE Zero

\* 1.0 / (1.0 + years_ago * 0.4)
edition_w(years_ago) == RatDiv(One, RatAdd(One, RatMul(RatOf(years_ago), Rat(4, 10))))

\* race_base_url in stage_url
InStageUrl(race_base, stage_url) == IsInfix(race_base, stage_url)

score_classic_pedigree(results, race_base, current_year, back) ==
    LET InRace(r) == InStageUrl(race_base, get_stage_url(r))
        in_race == SelectSeq(results, InRace)
        InYears(r) ==
            /\ Dated(r)
            /\ result_date(r).value.year \in (current_year - back) .. (current_year - 1)
        classic_results == SelectSeq(in_race, InYears)
        weight == [ i \in DOMAIN classic_results |->
                      edition_w(current_year - result_date(classic_results[i]).value.year) ]
        total_score ==
            RatSumSeq([ i \in DOMAIN classic_results |->
                          RatMul(PedigreeScore(get_rank(classic_results[i])), weight[i]) ])
        total_weight == RatSumSeq(weight)
    IN  IF Uncaught(in_race) # {}
        THEN Raise(result_date(in_race[FirstOf(Uncaught(in_race))]).exc)
        ELSE IF classic_results = << >> THEN Ret(Zero)
        ELSE IF \E i \in DOMAIN classic_results : BadInt(get_rank(classic_results[i]))
        THEN Raise("ValueError")
        ELSE Ret(IF RatLess(Zero, total_weight)
                 THEN RatDiv(total_score, total_weight) ELSE Zero)

-----------------------------------------------------------------------------
(* _score_momentum *)

\* the rank after the conversion of a digit string, 0 when it is no placing
Placing(rank) ==
    IF IsDigitStr(rank) THEN rank.value
    ELSE IF rank.type = "int" THEN rank.value
    ELSE 0

Mean(s) == RatDiv(RatSumSeq(s), RatOf(Len(s)))

Clamp01(x) == RatMax(Zero, RatMin(One, x))

\* binary64: the scores of two wins and two second places, 1.0, 1.0, 0.95 and
\* 0.95, add up to 3.9000000000000004 or to 3.9 with the order they are added
\* in, and with no earlier result the value returned is 0.8375000000000001 or
\* 0.8374999999999999: one unit in the last place above or below the double
\* nearest to the exact 0.8375
SumUlps ==
    <<One, One, Rat(19, 20), Rat(19, 20)>> :> 1 @@
    <<One, Rat(19, 20), One, Rat(19, 20)>> :> 1 @@
    <<Rat(19, 20), One, One, Rat(19, 20)>> :> 1 @@
    <<One, Rat(19, 20), Rat(19, 20), One>> :> -1 @@
    <<Rat(19, 20), One, Rat(19, 20), One>> :> -1 @@
    <<Rat(19, 20), Rat(19, 20), One, One>> :> -1

score_momentum(results, race_date) ==
    LET Past(r) == Dated(r) /\ Days(race_date, result_date(r).value) > 0
        past == SelectSeq(results, Past)
        Placed(r) == Placing(get_rank(r)) > 0
        placed == SelectSeq(past, Placed)
        Recent(r) == Days(race_date, result_date(r).value) <= 30
        Earlier(r) == Days(race_date, result_date(r).value) \in 31 .. 60
        Scores(s) == [ i \in DOMAIN s |-> PlaceScore(Placing(get_rank(s[i])), Rat(1, 20)) ]
        recent == Scores(SelectSeq(placed, Recent))
        earlier == Scores(SelectSeq(placed, Earlier))
        recent_avg == Mean(recent)
        trajectory_score ==
            IF earlier # << >>
            THEN Clamp01(RatAdd(Rat(1, 2),
                                RatMul(RatSub(recent_avg, Mean(earlier)), Rat(1, 2))))
            ELSE Rat(1, 2)
        IsPodium(s) == RatLeq(Rat(85, 100), s)
        podium_count == Len(SelectSeq(recent, IsPodium))
        podium_bonus == RatMin(Rat(3, 10), RatMul(RatOf(podium_count), Rat(1, 10)))
        score ==
            RatAdd(RatAdd(RatMul(recent_avg, Rat(1, 2)),
                          RatMul(trajectory_score, Rat(3, 10))),
                   RatMul(RatDiv(podium_bonus, Rat(3, 10)), Rat(2, 10)))
        \* the records at which an exception leaves the loop
        failing == Uncaught(results) \cup
                   {i \in DOMAIN results : Past(results[i]) /\ BadInt(get_rank(results[i]))}
    IN  IF failing # {}
        THEN (IF FirstOf(failing) \in Uncaught(results)
              THEN Raise(result_date(results[FirstOf(failing)]).exc)
              ELSE Raise("ValueError"))
        ELSE IF recent = << >> THEN Ret(Rat(3, 10))
        ELSE IF earlier = << >> /\ recent \in DOMAIN SumUlps
        THEN [Ret(Clamp01(score)) EXCEPT !.ulps = SumUlps[recent]]
        ELSE Ret(Clamp01(score))

-----------------------------------------------------------------------------
(* _score_age_distance.  The score is factor * exp(exponent), kept as that *)
(* pair: the Gaussian is not evaluated.                                    *)

Gauss(factor, exponent) == [factor |-> factor, exponent |-> exponent]

\* a slip: the optimum of the 180 km classic at every distance
optimal_age_flat(distance) == RatOf(26)

optimal_age(distance) == RatAdd(RatOf(26), RatMul(RatOf(distance - 180), Rat(42, 1000)))

sigma(distance) ==
    RatMax(Rat(35, 10), RatSub(Rat(55, 10), RatMul(RatOf(distance - 180), Rat(12, 1000))))

youth_penalty(age) ==
    RatMax(Rat(1, 2),
           RatMin(One, RatAdd(Rat(7, 10), RatMul(RatSub(age, RatOf(20)), Rat(75, 1000)))))

score_age_distance(age, distance) ==
    IF age = None THEN Ret(Gauss(Rat(1, 2), Zero))
    ELSE LET z == RatDiv(RatSub(age[1], optimal_age(distance)), sigma(distance))
             exponent == RatMul(Rat(-1, 2), RatMul(z, z))
         IN  IF RatLess(age[1], RatOf(24)) /\ distance >= 250
             THEN Ret(Gauss(youth_penalty(age[1]), exponent))
             ELSE Ret(Gauss(One, exponent))

-----------------------------------------------------------------------------
(* The race catalog *)

\* hundredths, the unit of the catalog's probabilities and difficulties
Pct(n) == Rat(n, 100)

\* CLASSICS_METADATA by race slug (the key is "race/" and the slug); of the
\* metadata the terrain, the typical distance, the month and the four
\* probabilities and difficulties
CLASSICS_METADATA ==
      "milano-sanremo" :>
          [terrain |-> "flat_punch", typical_distance |-> 300, month |-> 3,
           sprint_finish_prob |-> Pct(65), uphill_finish_prob |-> Pct(15),
           cobble_difficulty |-> Pct(0), climbing_difficulty |-> Pct(20)] @@
      "ronde-van-vlaanderen" :>
          [terrain |-> "cobbles_hills", typical_distance |-> 260, month |-> 4,
           sprint_finish_prob |-> Pct(10), uphill_finish_prob |-> Pct(30),
           cobble_difficulty |-> Pct(80), climbing_difficulty |-> Pct(50)] @@
      "paris-roubaix" :>
          [terrain |-> "cobbles", typical_distance |-> 260, month |-> 4,
           sprint_finish_prob |-> Pct(15), uphill_finish_prob |-> Pct(0),
           cobble_difficulty |-> Pct(100), climbing_difficulty |-> Pct(5)] @@
      "liege-bastogne-liege" :>
          [terrain |-> "hilly", typical_distance |-> 260, month |-> 4,
           sprint_finish_prob |-> Pct(5), uphill_finish_prob |-> Pct(50),
           cobble_difficulty |-> Pct(0), climbing_difficulty |-> Pct(85)] @@
      "il-lombardia" :>
          [terrain |-> "hilly", typical_distance |-> 240, month |-> 10,
           sprint_finish_prob |-> Pct(5), uphill_finish_prob |-> Pct(50),
           cobble_difficulty |-> Pct(0), climbing_difficulty |-> Pct(80)] @@
      "strade-bianche" :>
          [terrain |-> "hilly", typical_distance |-> 185, month |-> 3,
           sprint_finish_prob |-> Pct(10), uphill_finish_prob |-> Pct(70),
           cobble_difficulty |-> Pct(10), climbing_difficulty |-> Pct(60)] @@
      "e3-harelbeke" :>
          [terrain |-> "cobbles_hills", typical_distance |-> 205, month |-> 3,
           sprint_finish_prob |-> Pct(15), uphill_finish_prob |-> Pct(20),
           cobble_difficulty |-> Pct(60), climbing_difficulty |-> Pct(35)] @@
      "gent-wevelgem" :>
          [terrain |-> "cobbles_hills", typical_distance |-> 250, month |-> 3,
           sprint_finish_prob |-> Pct(60), uphill_finish_prob |-> Pct(10),
           cobble_difficulty |-> Pct(40), climbing_difficulty |-> Pct(20)] @@
      "amstel-gold-race" :>
          [terrain |-> "hilly", typical_distance |-> 260, month |-> 4,
           sprint_finish_prob |-> Pct(20), uphill_finish_prob |-> Pct(60),
           cobble_difficulty |-> Pct(0), climbing_difficulty |-> Pct(55)] @@
      "la-fleche-wallone" :>
          [terrain |-> "hilly", typical_distance |-> 195, month |-> 4,
           sprint_finish_prob |-> Pct(0), uphill_finish_prob |-> Pct(95),
           cobble_difficulty |-> Pct(0), climbing_difficulty |-> Pct(75)] @@
      "san-sebastian" :>
          [terrain |-> "hilly", typical_distance |-> 225, month |-> 7,
           sprint_finish_prob |-> Pct(10), uphill_finish_prob |-> Pct(40),
           cobble_difficulty |-> Pct(0), climbing_difficulty |-> Pct(70)] @@
      "dwars-door-vlaanderen" :>
          [terrain |-> "cobbles_hills", typical_distance |-> 185, month |-> 3,
           sprint_finish_prob |-> Pct(20), uphill_finish_prob |-> Pct(20),
           cobble_difficulty |-> Pct(50), climbing_difficulty |-> Pct(30)] @@
      "brabantse-pijl" :>
          [terrain |-> "hilly", typical_distance |-> 200, month |-> 4,
           sprint_finish_prob |-> Pct(15), uphill_finish_prob |-> Pct(40),
           cobble_difficulty |-> Pct(0), climbing_difficulty |-> Pct(50)] @@
      "kuurne-brussel-kuurne" :>
          [terrain |-> "flat_punch", typical_distance |-> 197, month |-> 3,
           sprint_finish_prob |-> Pct(80), uphill_finish_prob |-> Pct(0),
           cobble_difficulty |-> Pct(10), climbing_difficulty |-> Pct(10)] @@
      "omloop-het-nieuwsblad" :>
          [terrain |-> "cobbles_hills", typical_distance |-> 200, month |-> 3,
           sprint_finish_prob |-> Pct(15), uphill_finish_prob |-> Pct(15),
           cobble_difficulty |-> Pct(50), climbing_difficulty |-> Pct(35)] @@
      "gp-samyn" :>
          [terrain |-> "cobbles", typical_distance |-> 200, month |-> 3,
           sprint_finish_prob |-> Pct(10), uphill_finish_prob |-> Pct(0),
           cobble_difficulty |-> Pct(50), climbing_difficulty |-> Pct(10)] @@
      "nokere-koerse" :>
          [terrain |-> "flat_punch", typical_distance |-> 195, month |-> 3,
           sprint_finish_prob |-> Pct(70), uphill_finish_prob |-> Pct(0),
           cobble_difficulty |-> Pct(30), climbing_difficulty |-> Pct(10)] @@
      "bredene-koksijde-classic" :>
          [terrain |-> "flat_punch", typical_distance |-> 200, month |-> 3,
           sprint_finish_prob |-> Pct(60), uphill_finish_prob |-> Pct(0),
           cobble_difficulty |-> Pct(0), climbing_difficulty |-> Pct(5)] @@
      "brugge-de-panne" :>
          [terrain |-> "flat_punch", typical_distance |-> 205, month |-> 3,
           sprint_finish_prob |-> Pct(75), uphill_finish_prob |-> Pct(0),
           cobble_difficulty |-> Pct(10), climbing_difficulty |-> Pct(5)] @@
      "scheldeprijs" :>
          [terrain |-> "flat_punch", typical_distance |-> 200, month |-> 4,
           sprint_finish_prob |-> Pct(95), uphill_finish_prob |-> Pct(0),
           cobble_difficulty |-> Pct(0), climbing_difficulty |-> Pct(0)] @@
      "ronde-van-limburg" :>
          [terrain |-> "hilly", typical_distance |-> 200, month |-> 4,
           sprint_finish_prob |-> Pct(40), uphill_finish_prob |-> Pct(20),
           cobble_difficulty |-> Pct(0), climbing_difficulty |-> Pct(35)]

-----------------------------------------------------------------------------
(* _score_previous_year *)

\* the base URL of a catalog race
CatalogUrl(slug) == <<"race", "/", slug>>

\* _similar_terrain_classics
similar_terrain_classics(terrain) ==
    { CatalogUrl(slug) : slug \in {k \in DOMAIN CLASSICS_METADATA :
                                     CLASSICS_METADATA[k].terrain = terrain} }

RECURSIVE RatMaxSeq(_)
RatMaxSeq(s) == IF s = << >> THEN Zero ELSE RatMax(Head(s), RatMaxSeq(Tail(s)))

score_previous_year(results, race_base, terrain, current_year) ==
    LET prev_year == current_year - 1
        similar_urls == similar_terrain_classics(terrain)
        LastYear(r) == Dated(r) /\ result_date(r).value.year = prev_year
        Placed(r) == Placing(get_rank(r)) > 0
        placed == SelectSeq(SelectSeq(results, LastYear), Placed)
        rank_score(r) == PlaceScore(Placing(get_rank(r)), Rat(25, 1000))
        SameRace(r) == InStageUrl(race_base, get_stage_url(r))
        Similar(r) ==
            /\ ~SameRace(r)
            /\ \E similar_url \in similar_urls :
                  InStageUrl(similar_url, get_stage_url(r)) /\ similar_url # race_base
        same == SelectSeq(placed, SameRace)
        similar == SelectSeq(placed, Similar)
        same_race_score == RatMaxSeq([i \in DOMAIN same |-> rank_score(same[i])])
        similar_avg ==
            IF similar = << >> THEN Zero
            ELSE Mean([i \in DOMAIN similar |-> rank_score(similar[i])])
        failing == Uncaught(results) \cup
                   {i \in DOMAIN results : LastYear(results[i]) /\ BadInt(get_rank(results[i]))}
    IN  IF failing # {}
        THEN (IF FirstOf(failing) \in Uncaught(results)
              THEN Raise(result_date(results[FirstOf(failing)]).exc)
              ELSE Raise("ValueError"))
        ELSE Ret(RatAdd(RatMul(same_race_score, Rat(6, 10)), RatMul(similar_avg, Rat(4, 10))))

-----------------------------------------------------------------------------
(* _score_preparation *)

\* a slip: the results of the race day counted with the season
InSeasonWithRaceDay(r, race_date) ==
    /\ Dated(r)
    /\ Days(result_date(r).value, Date(race_date.year, 1, 1)) >= 0
    /\ Days(race_date, result_date(r).value) >= 0

\* season_start <= rdate < race_date
InSeason(r, race_date) ==
    /\ Dated(r)
    /\ Days(result_date(r).value, Date(race_date.year, 1, 1)) >= 0
    /\ Days(race_date, result_date(r).value) > 0

\* the products days * fraction whose binary64 value falls just below the
\* integer they equal exactly (180 * 0.35 is 62.99999999999999)
FloatShort == { <<180, 35>>, <<340, 35>>, <<360, 35>> }

\* a slip: the share rounded up
IntOfShareCeiling(days, hundredths) == (days * hundredths + 99) \div 100

\* int(days * fraction), the fraction in hundredths
IntOfShare(days, hundredths) ==
    IF <<days, hundredths>> \in FloatShort
    THEN (days * hundredths) \div 100 - 1
    ELSE (days * hundredths) \div 100

score_preparation(results, race_date) ==
    LET InSeasonNow(r) == InSeason(r, race_date)
        race_days == Len(SelectSeq(results, InSeasonNow))
        days_into_season == Days(race_date, Date(race_date.year, 1, 1))
        optimal_low == Max(10, IntOfShare(days_into_season, 20))
        optimal_high == Max(20, IntOfShare(days_into_season, 35))
    IN  IF Uncaught(results) # {}
        THEN Raise(result_date(results[FirstOf(Uncaught(results))]).exc)
        ELSE IF optimal_low <= race_days /\ race_days <= optimal_high THEN Ret(One)
        ELSE IF race_days < optimal_low
        THEN Ret(RatMax(Rat(1, 10), Rat(race_days, optimal_low)))
        ELSE Ret(RatMax(Rat(3, 10),
                        RatSub(One, RatMul(RatOf(race_days - optimal_high), Rat(2, 100)))))

-----------------------------------------------------------------------------
(* _score_injury *)

\* insertion into a list sorted by date; equal dates keep their order
RECURSIVE InsertByDate(_, _)
InsertByDate(s, r) ==
    IF s = << >> THEN <<r>>
    ELSE IF Days(result_date(r).value, result_date(Head(s)).value) < 0 THEN <<r>> \o s
    ELSE <<Head(s)>> \o InsertByDate(Tail(s), r)

\* a slip: the season's results left in the order of the list
SortByDateSkipped(s) == s

\* season_results.sort(key=lambda x: x[0])
RECURSIVE SortByDate(_)
SortByDate(s) ==
    IF s = << >> THEN << >>
    ELSE InsertByDate(SortByDate(SubSeq(s, 1, Len(s) - 1)), s[Len(s)])

RECURSIVE RatProdSeq(_)
RatProdSeq(s) == IF s = << >> THEN One ELSE RatMul(Head(s), RatProdSeq(Tail(s)))

\* rank is None or one of the non-finish codes
IsNonFinish(rank) ==
    \/ rank.type = "NoneType"
    \/ rank.type = "str" /\ rank.text \in {"DNF", "DNS", "DSQ", "OTL"}

score_injury(results, race_date) ==
    LET InSeasonNow(r) == InSeason(r, race_date)
        season_results == SortByDate(SelectSeq(results, InSeasonNow))
        DateAt(i) == result_date(season_results[i]).value
        expected_start == Date(race_date.year, 1, 25)
        delay == Days(DateAt(1), expected_start)
        late_start ==
            IF delay > 0
            THEN RatMax(Rat(1, 2), RatSub(One, RatMul(RatOf(delay), Rat(7, 1000))))
            ELSE One
        gap_penalty(gap) ==
            IF gap > 28
            THEN RatMax(Rat(85, 100), RatSub(One, RatMul(RatOf(gap - 28), Rat(3, 1000))))
            ELSE One
        gaps == [ i \in 1 .. (Len(season_results) - 1) |->
                    gap_penalty(Days(DateAt(i + 1), DateAt(i))) ]
        RecentNonFinish(r) ==
            /\ Days(race_date, result_date(r).value) <= 30
            /\ IsNonFinish(get_rank(r))
        dnf_count == Len(SelectSeq(season_results, RecentNonFinish))
        dnf_penalty ==
            IF dnf_count > 0
            THEN RatMax(Rat(6, 10), RatSub(One, RatMul(RatOf(dnf_count), Rat(12, 100))))
            ELSE One
        penalty == RatMul(RatMul(late_start, RatProdSeq(gaps)), dnf_penalty)
    IN  IF Uncaught(results) # {}
        THEN Raise(result_date(results[FirstOf(Uncaught(results))]).exc)
        ELSE IF season_results = << >> THEN Ret(Rat(3, 10))
        ELSE Ret(RatMax(Rat(3, 10), penalty))

-----------------------------------------------------------------------------
(* The race context of predict: distance, date and terrain *)

\* _race_base_url of a URL: the first two segments
race_base_url(url) ==
    LET slashes == {i \in DOMAIN url : url[i] = "/"}
        later == {i \in slashes : \E j \in slashes : j < i}
    IN  IF later = {} THEN url ELSE SubSeq(url, 1, FirstOf(later) - 1)

\* CLASSICS_METADATA.get(base_url, {}): None stands for the empty dict
catalog_get(base_url) ==
    IF /\ Len(base_url) = 3
       /\ base_url[1] = "race"
       /\ base_url[2] = "/"
       /\ base_url[3] \in DOMAIN CLASSICS_METADATA
    THEN Some(CLASSICS_METADATA[base_url[3]])
    ELSE None

\* a slip: an override taken only when it is truthy
race_context_truthy(race_url, year, race_distance, race_date, page) ==
    LET race_meta == catalog_get(race_base_url(race_url))
    IN  [ distance |->
            IF race_distance # None /\ race_distance[1] # 0 THEN race_distance[1]
            ELSE IF race_meta # None THEN race_meta[1].typical_distance
            ELSE page.distance,
          race_date |->
            IF race_date # None THEN race_date[1]
            ELSE IF race_meta # None /\ race_meta[1].month # 0
            THEN Date(year, race_meta[1].month, 15)
            ELSE page.date,
          terrain |-> IF race_meta # None THEN race_meta[1].terrain ELSE "hilly" ]

\* page is what the race page yields for _fetch_race_distance and
\* _fetch_race_date
race_context(race_url, year, race_distance, race_date, page) ==
    LET race_meta == catalog_get(race_base_url(race_url))
    IN  [ distance |->
            IF race_distance # None THEN race_distance[1]
            ELSE IF race_meta # None THEN race_meta[1].typical_distance
            ELSE page.distance,
          race_date |->
            IF race_date # None THEN race_date[1]
            ELSE IF race_meta # None /\ race_meta[1].month # 0
            THEN Date(year, race_meta[1].month, 15)
            ELSE page.date,
          terrain |-> IF race_meta # None THEN race_meta[1].terrain ELSE "hilly" ]

\* predict for one athlete, as far as the race context reaches: the context
\* and the two features computed from the distance and from the date
predict_context(race_url, year, race_distance, race_date, page, age, results) ==
    LET context == race_context(race_url, year, race_distance, race_date, page)
    IN  [ context |-> context,
          age_distance_fit |-> score_age_distance(age, context.distance),
          recent_form |-> score_recent_form(results, context.race_date, window_days) ]

-----------------------------------------------------------------------------
(* Arguments of the calls *)

\* the race day of the calls
RaceDay == Date(2024, 4, 7)

\* a result as the scraper lists it
ResultRecord(date_str, rank, stage_url, race_class) ==
    [date |-> date_str, rank |-> rank, stage_url |-> stage_url, class |-> race_class]

UrlA == <<"race", "/", "gent-wevelgem", "/", "2024">>
UrlB == <<"race", "/", "e3-harelbeke", "/", "2024">>
ClassUWT == <<"1.", "UWT">>

\* days before the race day at which the two placings of a pair stand
Offsets == {1, 12, 30, 31, 45, 60, 61, 83, 90, 91}

\* a result both histories of a pair share, or none
Shared ==
    { << >>,
      << ResultRecord(Iso(MinusDays(RaceDay, 20)), IntRank(5), UrlB, ClassUWT) >>,
      << ResultRecord(Iso(MinusDays(RaceDay, 50)), IntRank(2), UrlB, <<"1.", "Pro">>) >> }

\* a win win_ago days and a 15th place other_ago days before the race day
PairHistory(win_ago, other_ago, shared) ==
    << ResultRecord(Iso(MinusDays(RaceDay, win_ago)), IntRank(1), UrlA, ClassUWT),
       ResultRecord(Iso(MinusDays(RaceDay, other_ago)), IntRank(15), UrlB, ClassUWT) >>
    \o shared

PairHistories ==
    { PairHistory(p[1], p[2], s) :
        p \in {q \in Offsets \X Offsets : q[1] # q[2]}, s \in Shared }


\* the race the calls are made for
TargetRace == <<"race", "/", "paris-roubaix">>
TargetYear == 2024

Edition(slug, year) == <<"race", "/">> \o slug \o <<"/", year>>

MaxResults == 2       \* longest results list of the general calls

\* results of the target race, of other races, and records that are damaged
ResultPool ==
    { \* the target race, last year and six years back
      ResultRecord(DateStr(<<2023, 4, 9>>), IntRank(3), Edition(<<"paris-roubaix">>, "2023"), ClassUWT),
      ResultRecord(DateStr(<<2018, 4, 8>>), IntRank(1), Edition(<<"paris-roubaix">>, "2018"), ClassUWT),
      \* another classic, and the under-23 race whose URL extends the target's
      ResultRecord(DateStr(<<2023, 3, 18>>), IntRank(1), Edition(<<"milano-sanremo">>, "2023"), ClassUWT),
      ResultRecord(DateStr(<<2023, 5, 28>>), IntRank(1),
                   Edition(<<"paris-roubaix", "-espoirs">>, "2023"), <<"1.", "2U">>),
      \* this season
      ResultRecord(DateStr(<<2024, 3, 24>>), StrRank("2", TRUE, 2), Edition(<<"gent-wevelgem">>, "2024"), ClassUWT),
      ResultRecord(DateStr(<<2024, 3, 31>>), StrRank("DNF", FALSE, NaN),
                   Edition(<<"ronde-van-vlaanderen">>, "2024"), ClassUWT),
      \* damaged records: no date key, a date of None, "2024-xx-5", "2024-2-30",
      \* and a rank that is neither a placing nor a non-finish code
      [rank |-> IntRank(1), stage_url |-> Edition(<<"paris-roubaix">>, "2023"), class |-> ClassUWT],
      ResultRecord(NoneValue, IntRank(1), Edition(<<"paris-roubaix">>, "2023"), ClassUWT),
      ResultRecord(DateStr(<<2024, NaN, 5>>), IntRank(1), Edition(<<"gent-wevelgem">>, "2024"), ClassUWT),
      ResultRecord(DateStr(<<2024, 2, 30>>), IntRank(1), Edition(<<"gent-wevelgem">>, "2024"), ClassUWT),
      ResultRecord(DateStr(<<2024, 3, 20>>), StrRank("abc", FALSE, NaN),
                   Edition(<<"e3-harelbeke">>, "2024"), ClassUWT) }

GeneralLists == SeqsUpTo(ResultPool, MaxResults)

PedigreeCalls ==
    { [fn |-> "classic_pedigree", results |-> rs, race_base_url |-> TargetRace,
       current_year |-> TargetYear] : rs \in GeneralLists }

ResultLists == PairHistories \cup GeneralLists

\* the terrain the catalog gives the target race
TargetTerrain == CLASSICS_METADATA[TargetRace[3]].terrain

PreviousYearCalls ==
    { [fn |-> "previous_year", results |-> rs, race_base_url |-> TargetRace,
       terrain |-> TargetTerrain, current_year |-> TargetYear] : rs \in GeneralLists }

\* a race day in the autumn
AutumnDay == Date(2024, 10, 12)

RaceDays == {RaceDay, AutumnDay}

UrlC == Edition(<<"e3-harelbeke">>, "2024")

\* a season as the results page lists it, newest first: the two race days,
\* starts before and after 25 January, long gaps, four non-finishes in the
\* last weeks before the autumn race day, and a result of the season before
SeasonPool ==
    << ResultRecord(Iso(AutumnDay), IntRank(1), UrlC, ClassUWT),
       ResultRecord(DateStr(<<2024, 10, 11>>), StrRank("OTL", FALSE, NaN), UrlC, ClassUWT),
       [date |-> DateStr(<<2024, 10, 5>>), stage_url |-> UrlC, class |-> ClassUWT],
       ResultRecord(DateStr(<<2024, 10, 1>>), StrRank("DNS", FALSE, NaN), UrlC, ClassUWT),
       ResultRecord(DateStr(<<2024, 9, 25>>), StrRank("DNF", FALSE, NaN), UrlC, ClassUWT),
       ResultRecord(DateStr(<<2024, 7, 1>>), IntRank(8), UrlC, ClassUWT),
       ResultRecord(Iso(RaceDay), IntRank(1), UrlC, ClassUWT),
       ResultRecord(DateStr(<<2024, 4, 6>>), StrRank("DSQ", FALSE, NaN), UrlC, ClassUWT),
       ResultRecord(DateStr(<<2024, 3, 10>>), StrRank("4", TRUE, 4), UrlC, ClassUWT),
       ResultRecord(DateStr(<<2024, 1, 10>>), IntRank(5), UrlC, ClassUWT),
       ResultRecord(DateStr(<<2023, 10, 1>>), IntRank(1), UrlC, ClassUWT) >>

\* the records of s at the positions S, in the order of s
RECURSIVE PickFrom(_, _, _)
PickFrom(s, S, i) ==
    IF i > Len(s) THEN << >>
    ELSE (IF i \in S THEN <<s[i]>> ELSE << >>) \o PickFrom(s, S, i + 1)

\* every selection of results from the season
SeasonHistories == { PickFrom(SeasonPool, S, 1) : S \in SUBSET DOMAIN SeasonPool }

MaxRaceDays == 100    \* most race days of a season before the race

\* an early race day, and the day 180 days into the season
WinterDay == Date(2024, 1, 20)
SummerDay == Date(2024, 6, 29)

\* a season of n race days before the race day d, the day before the race
\* listed twice, after results that do not count: of the race day, of the day
\* after, of the season before and one without a valid date
Campaign(n, d) ==
    << ResultRecord(Iso(d), IntRank(1), UrlC, ClassUWT),
       ResultRecord(Iso(MinusDays(d, -1)), IntRank(1), UrlC, ClassUWT),
       ResultRecord(DateStr(<<d.year - 1, 12, 31>>), IntRank(1), UrlC, ClassUWT),
       ResultRecord(DateStr(<<d.year, 2, 30>>), IntRank(1), UrlC, ClassUWT) >>
    \o [ i \in 1 .. n |->
           ResultRecord(Iso(MinusDays(d, Max(1, (i - 1) % Days(d, Date(d.year, 1, 1))))),
                        IntRank(7), UrlC, ClassUWT) ]

PreparationCalls ==
    { [fn |-> "preparation", results |-> rs, race_date |-> RaceDay] : rs \in GeneralLists }
    \cup { [fn |-> "preparation", results |-> Campaign(n, d), race_date |-> d] :
             n \in 0 .. MaxRaceDays, d \in {WinterDay, RaceDay, SummerDay, AutumnDay} }

InjuryCalls ==
    { [fn |-> "injury", results |-> rs, race_date |-> RaceDay] : rs \in GeneralLists }
    \cup { [fn |-> "injury", results |-> rs, race_date |-> d] :
             rs \in SeasonHistories, d \in RaceDays }

RecentFormCalls ==
    { [fn |-> "recent_form", results |-> rs, race_date |-> RaceDay] : rs \in ResultLists }

\* two wins and two second places on four days of March 2024, in every order
PodiumRanks == {<<1, 1, 2, 2>>, <<1, 2, 1, 2>>, <<2, 1, 1, 2>>,
                <<1, 2, 2, 1>>, <<2, 1, 2, 1>>, <<2, 2, 1, 1>>}

PodiumRuns ==
    { [ i \in 1 .. 4 |-> ResultRecord(DateStr(<<2024, 3, 19 + i>>), IntRank(ranks[i]),
                                      Edition(<<"x">>, "2024"), ClassUWT) ] :
        ranks \in PodiumRanks }

MomentumCalls ==
    { [fn |-> "momentum", results |-> rs, race_date |-> RaceDay] :
        rs \in ResultLists \cup PodiumRuns }
    \cup { [fn |-> "momentum", results |-> rs, race_date |-> d] :
             rs \in SeasonHistories, d \in RaceDays }

\* race distances in km: below and at the 180 km reference, around the 250 km
\* youth threshold, and past the distance at which sigma stops narrowing
Distances == {150, 180, 215, 249, 250, 260, 300, 350}

MinAge == 18
MaxAge == 42

\* whole ages, the optimum of the distance, and ages one sigma from it
Ages(distance) ==
    { RatOf(a) : a \in MinAge .. MaxAge }
    \cup { optimal_age(distance),
           RatAdd(optimal_age(distance), sigma(distance)),
           RatSub(optimal_age(distance), sigma(distance)) }

AgeDistanceCalls ==
    UNION { { [fn |-> "age_distance", age |-> Some(a), distance |-> d] : a \in Ages(d) }
            \cup { [fn |-> "age_distance", age |-> None, distance |-> d] } :
            d \in Distances }

\* team slugs: those of the table, two outside it, and the empty one
Teams == DOMAIN TEAM_TIERS \cup {"some-small-team", "UAE-Team-Emirates", ""}

\* records with a team, and one without the key
TeamStrengthCalls ==
    { [fn |-> "team_strength", rider_data |-> [team |-> t]] : t \in Teams }
    \cup { [fn |-> "team_strength", rider_data |-> [results |-> << >>]] }

-----------------------------------------------------------------------------
(* The log-normalised profile signals.  A score is                         *)
(* math.log1p(raw) / math.log1p(ref), kept as that pair: the logarithm is  *)
(* not evaluated.  0.0 is the score of raw = 0, 1.0 that of raw = ref.     *)

LogScore(sum, ref) == [raw |-> sum, ref |-> ref]

ZeroScore == LogScore(Zero, One)

OneScore == LogScore(One, One)

\* a slip: the score left as it is above the reference
MinOneUnclamped(score) == score

\* min(1.0, score): log1p grows with its argument, so the score is 1.0 or
\* more exactly when raw is ref or more
MinOne(score) == IF RatLeq(score.ref, score.raw) THEN OneScore ELSE score

\* a * p + b * (1.0 - p), kept as its four operands
Blend(a, p, b) == [a |-> a, p |-> p, b |-> b, q |-> RatSub(One, p)]

\* profile.get("points_per_speciality", {}).get(speciality, 0)
Points(profile, speciality) ==
    RatOf(Get(Get(profile, "points_per_speciality", << >>), speciality, 0))

\* CLASSICS_METADATA.get(race_base_url, {})
MetaDict(base_url) ==
    IF catalog_get(base_url) = None THEN << >> ELSE catalog_get(base_url)[1]

\* the normalisation shared by the five functions: 0.0 unless raw is positive
Normalised(sum, ref) ==
    IF RatLeq(sum, Zero) THEN ZeroScore ELSE MinOne(LogScore(sum, ref))

score_specialty(profile) ==
    Normalised(Points(profile, "one_day_races"), RatOf(4000))

\* raw and ref of _score_terrain_match, by terrain
TerrainRaw(profile, terrain, race_meta) ==
    LET one_day == Points(profile, "one_day_races")
        sprint == Points(profile, "sprint")
        climber == Points(profile, "climber")
        tt == Points(profile, "time_trial")
        gc == Points(profile, "gc")
        climbing_diff == Get(race_meta, "climbing_difficulty", Rat(4, 10))
    IN  IF terrain = "cobbles"
        THEN LogScore(RatAdd(RatAdd(RatMul(one_day, Rat(5, 10)), RatMul(tt, Rat(35, 100))),
                               RatMul(gc, Rat(15, 100))),
                        RatOf(4000))
        ELSE IF terrain \in {"hilly", "mountainous"}
        THEN LogScore(
                 RatAdd(RatAdd(RatMul(one_day,
                                      RatSub(Rat(4, 10), RatMul(climbing_diff, Rat(15, 100)))),
                               RatMul(RatMul(climber, climbing_diff), Rat(5, 10))),
                        RatAdd(RatMul(RatMul(gc, climbing_diff), Rat(3, 10)),
                               RatMul(RatMul(tt, RatSub(One, climbing_diff)), Rat(1, 10)))),
                 RatOf(3500))
        ELSE IF terrain = "flat_punch"
        THEN LogScore(
                 RatAdd(RatAdd(RatMul(one_day, Rat(35, 100)), RatMul(sprint, Rat(4, 10))),
                        RatAdd(RatMul(tt, Rat(15, 100)), RatMul(gc, Rat(1, 10)))),
                 RatOf(3500))
        ELSE IF terrain = "cobbles_hills"
        THEN LogScore(
                 RatAdd(RatAdd(RatAdd(RatMul(one_day, Rat(4, 10)), RatMul(tt, Rat(2, 10))),
                               RatAdd(RatMul(climber, Rat(2, 10)), RatMul(gc, Rat(1, 10)))),
                        RatMul(sprint, Rat(1, 10))),
                 RatOf(3500))
        ELSE LogScore(one_day, RatOf(4000))

score_terrain_match(profile, terrain, race_meta) ==
    LET sums == TerrainRaw(profile, terrain, race_meta)
    IN  Normalised(sums.raw, sums.ref)

score_sprint_capability(profile, race_meta) ==
    Blend(Normalised(Points(profile, "sprint"), RatOf(2000)),
          Get(race_meta, "sprint_finish_prob", Rat(2, 10)),
          Normalised(Points(profile, "one_day_races"), RatOf(4000)))

\* the raw sum of the puncheur score
PuncheurRaw(profile) ==
    RatAdd(RatAdd(RatMul(Points(profile, "climber"), Rat(45, 100)),
                  RatMul(Points(profile, "one_day_races"), Rat(35, 100))),
           RatMul(Points(profile, "gc"), Rat(20, 100)))

score_uphill_sprint(profile, race_meta) ==
    Blend(Normalised(PuncheurRaw(profile), RatOf(4000)),
          Get(race_meta, "uphill_finish_prob", Rat(2, 10)),
          Normalised(Points(profile, "one_day_races"), RatOf(4000)))

\* the raw sum of the cobble score
CobbleRaw(profile) ==
    RatAdd(RatAdd(RatMul(Points(profile, "one_day_races"), Rat(45, 100)),
                  RatMul(Points(profile, "time_trial"), Rat(40, 100))),
           RatMul(Points(profile, "sprint"), Rat(15, 100)))

score_cobble_capability(profile, race_meta) ==
    Blend(Normalised(CobbleRaw(profile), RatOf(4000)),
          Get(race_meta, "cobble_difficulty", Zero),
          Normalised(Points(profile, "one_day_races"), RatOf(4000)))

\* specialty points: none, some, and more than every reference
PointPool == {0, 1500, 9000}

Specialities == {"one_day_races", "sprint", "climber", "time_trial", "gc"}

\* profiles with every speciality, three at the references, one with a
\* single speciality, one with no points at all, one with points below zero
Profiles ==
    { [points_per_speciality |-> pts] : pts \in [Specialities -> PointPool] }
    \cup { [points_per_speciality |-> [s \in Specialities |-> n]] : n \in {2000, 3500, 4000} }
    \cup { [points_per_speciality |-> [sprint |-> 700]], [name |-> "NEWCOMER"],
           [points_per_speciality |-> [one_day_races |-> 1500, climber |-> -3000,
                                       time_trial |-> -3000]] }

\* the races of the catalog and one outside it
ProfileRaces == { CatalogUrl(slug) : slug \in DOMAIN CLASSICS_METADATA \cup {"tro-bro-leon"} }

\* the terrain predict passes for a race, and for the race outside the
\* catalog the two terrains no catalog race has
TerrainsOf(base_url) ==
    IF catalog_get(base_url) = None
    THEN {"hilly", "mountainous", "gravel"}
    ELSE {catalog_get(base_url)[1].terrain}

ProfileCalls ==
    { [fn |-> fn, profile |-> p, race_base_url |-> r] :
        fn \in {"specialty", "sprint_capability", "uphill_sprint", "cobble_capability"},
        p \in Profiles, r \in ProfileRaces }
    \cup UNION { { [fn |-> "terrain_match", profile |-> p, race_base_url |-> r,
                    terrain |-> t] : p \in Profiles, t \in TerrainsOf(r) } :
                 r \in ProfileRaces }

-----------------------------------------------------------------------------
(* ClassicsPredictor(weights=w).predict_from_data as one call.  The weights *)
(* are written as whole numbers of a unit: 3 and 1 with the unit 10 are the *)
(* floats 0.3 and 0.1, with the unit 1 the floats 3.0 and 1.0.              *)

\* binary64: 0.3 / (0.3 + 0.1) is 0.7499999999999999, one unit in the last
\* place below the float nearest to 3/4, where 3.0 / (3.0 + 1.0) is 0.75.
\* Measured for the vectors below and their multiples up to four: the
\* number of units by which the quotient of key k misses the nearest float
QuotientUlps(v, unit, k) ==
    IF unit # 10 \/ DOMAIN v # {"classic_pedigree", "bogus_feature"} THEN 0
    ELSE IF v.classic_pedigree = 3 * v.bogus_feature /\ v.bogus_feature \in {1, 2, 4}
              /\ k = "classic_pedigree" THEN -1
    ELSE IF v.bogus_feature = 3 * v.classic_pedigree /\ v.classic_pedigree \in {1, 2, 4}
              /\ k = "bogus_feature" THEN -1
    ELSE IF v.classic_pedigree = 6 /\ v.bogus_feature = 3 THEN 1
    ELSE 0

\* a quotient that missed x by some units in the last place.  The model
\* puts it 1/1024 of the last unit of x away per unit: far more than
\* binary64 does, and little enough to round every score of these calls the
\* way binary64 rounds it
Nudged(x, ulps) ==
    IF ulps = 0 THEN x ELSE Rat(x.num * 1024 + ulps, x.den * 1024)

\* a slip: the weights stored as they are given
init_weights_as_given(v, unit) == [k \in DOMAIN v |-> Rat(v[k], unit)]

\* self.weights after __init__, for a vector whose total is not 0
init_weights(v, unit) ==
    [ k \in DOMAIN v |->
        Nudged(Normalize(v, SumValues(v))[k], QuotientUlps(v, unit, k)) ]

\* the riders of these calls: fourth, sixteenth and first in last year's
\* edition of the race, which is their classic_pedigree
ScaleRiders ==
    [ u \in URLs |->
        CASE u = "rider/a" -> Rec("", 0, 946, 0, 500)
          [] u = "rider/b" -> Rec("cofidis", 0, 730, 0, 500)
          [] OTHER -> Rec("lidl-trek", 0, 1000, 0, 500) ]

\* the predictions of ClassicsPredictor(weights=v/unit) for a startlist
predict_under(v, unit, sl) ==
    IF DOMAIN v # {} /\ SumValues(v) = 0 THEN Raise("ZeroDivisionError")
    ELSE Ret(PredictResult(init_weights(v, unit), sl, ScaleRiders, [u \in URLs |-> None]))

\* weight vectors: a zero total, an empty dict, one key, two keys
ScaleVectors ==
    { [classic_pedigree |-> 3, bogus_feature |-> 1], [classic_pedigree |-> 1, bogus_feature |-> 1],
      [classic_pedigree |-> 1, bogus_feature |-> 3], [classic_pedigree |-> 2, bogus_feature |-> 1],
      [classic_pedigree |-> 0, bogus_feature |-> 0], [classic_pedigree |-> 3],
      [bogus_feature |-> 2] }

Units == {1, 10}

ScaleCalls ==
    { [fn |-> "predict_from_data", weights |-> v, unit |-> u, startlist |-> sl] :
        v \in ScaleVectors, u \in Units,
        sl \in { [i \in DOMAIN t |-> Entry(t[i])] : t \in SeqsUpTo(URLs, 2) } }

\* races of the catalog and one outside it
RaceSlugs == {"paris-roubaix", "milano-sanremo", "il-lombardia", "tro-bro-leon"}

\* race_distance and race_date arguments; 0 is a distance a caller can pass
DistanceOverrides == {None, Some(0), Some(150), Some(260)}
DateOverrides == {None, Some(RaceDay), Some(Date(2024, 10, 12))}

\* what the race page yields, 220 km and today being the fallbacks
RacePages ==
    { [distance |-> 220, date |-> Date(2024, 11, 6)],
      [distance |-> 204, date |-> Date(2024, 5, 5)] }

\* the athlete of the context calls: 30 years old, a win on 2024-3-24
ContextAge == Some(RatOf(30))
ContextResults ==
    << ResultRecord(DateStr(<<2024, 3, 24>>), IntRank(1), Edition(<<"gent-wevelgem">>, "2024"),
                    ClassUWT),
       ResultRecord(DateStr(<<2024, 9, 28>>), IntRank(9), Edition(<<"x">>, "2024"), ClassUWT) >>

PredictCalls ==
    { [fn |-> "predict", race_url |-> Edition(<<slug>>, "2024"), year |-> TargetYear,
       race_distance |-> d, race_date |-> rd, page |-> pg] :
        slug \in RaceSlugs, d \in DistanceOverrides, rd \in DateOverrides, pg \in RacePages }

FeatureCalls ==
    PredictCalls \cup
    RecentFormCalls \cup MomentumCalls \cup AgeDistanceCalls \cup TeamStrengthCalls
    \cup PedigreeCalls \cup PreviousYearCalls \cup PreparationCalls \cup InjuryCalls
    \cup ProfileCalls \cup ScaleCalls

-----------------------------------------------------------------------------
(* The calls as a state machine: the arguments are drawn when the          *)
(* behaviour starts, the one step is the call                              *)

InitFeat ==
    /\ NoPredictor
    /\ NoScorer
    /\ NoCalibrator
    /\ call \in { [args |-> c, returned |-> FALSE, ret |-> Ret(Zero)] : c \in FeatureCalls }

Returns(fn, outcome) ==
    /\ call.args.fn = fn
    /\ ~call.returned
    /\ call' = [call EXCEPT !.returned = TRUE, !.ret = outcome]
    /\ UNCHANGED <<predictorVars, scorerVars, calibratorVars>>

ScoreRecentForm ==
    Returns("recent_form",
            score_recent_form(call.args.results, call.args.race_date, window_days))

ScoreMomentum ==
    Returns("momentum", score_momentum(call.args.results, call.args.race_date))

ScoreAgeDistance ==
    Returns("age_distance", score_age_distance(call.args.age, call.args.distance))

ScoreTeamStrength ==
    Returns("team_strength", Ret(score_team_strength(call.args.rider_data)))

ScoreClassicPedigree ==
    Returns("classic_pedigree",
            score_classic_pedigree(call.args.results, call.args.race_base_url,
                                   call.args.current_year, years_back))

ScorePreviousYear ==
    Returns("previous_year",
            score_previous_year(call.args.results, call.args.race_base_url,
                                call.args.terrain, call.args.current_year))

ScorePreparation ==
    Returns("preparation", score_preparation(call.args.results, call.args.race_date))

ScoreInjury ==
    Returns("injury", score_injury(call.args.results, call.args.race_date))

PredictContext ==
    Returns("predict",
            Ret(predict_context(call.args.race_url, call.args.year, call.args.race_distance,
                                call.args.race_date, call.args.page, ContextAge,
                                ContextResults)))

ScoreSpecialty ==
    Returns("specialty", Ret(score_specialty(call.args.profile)))

ScoreTerrainMatch ==
    Returns("terrain_match",
            Ret(score_terrain_match(call.args.profile, call.args.terrain,
                                    MetaDict(call.args.race_base_url))))

ScoreSprintCapability ==
    Returns("sprint_capability",
            Ret(score_sprint_capability(call.args.profile, MetaDict(call.args.race_base_url))))

ScoreUphillSprint ==
    Returns("uphill_sprint",
            Ret(score_uphill_sprint(call.args.profile, MetaDict(call.args.race_base_url))))

ScoreCobbleCapability ==
    Returns("cobble_capability",
            Ret(score_cobble_capability(call.args.profile, MetaDict(call.args.race_base_url))))

PredictFromData ==
    Returns("predict_from_data",
            predict_under(call.args.weights, call.args.unit, call.args.startlist))

NextFeat ==
    \/ PredictContext
    \/ ScoreRecentForm
    \/ ScoreMomentum
    \/ ScoreAgeDistance
    \/ ScoreTeamStrength
    \/ ScoreClassicPedigree
    \/ ScorePreviousYear
    \/ ScorePreparation
    \/ ScoreInjury
    \/ ScoreSpecialty
    \/ ScoreTerrainMatch
    \/ ScoreSprintCapability
    \/ ScoreUphillSprint
    \/ ScoreCobbleCapability
    \/ PredictFromData

SpecFeat == InitFeat /\ [][NextFeat]_vars

-----------------------------------------------------------------------------
(* Properties of the feature functions *)

Called(fn) == call.args.fn = fn /\ call.returned

\* what the function of the call yields for another results list
Rescore(results) ==
    CASE call.args.fn = "recent_form" ->
           score_recent_form(results, call.args.race_date, window_days)
      [] call.args.fn = "momentum" -> score_momentum(results, call.args.race_date)
      [] call.args.fn = "classic_pedigree" ->
           score_classic_pedigree(results, call.args.race_base_url,
                                  call.args.current_year, years_back)
      [] call.args.fn = "previous_year" ->
           score_previous_year(results, call.args.race_base_url, call.args.terrain,
                               call.args.current_year)
      [] call.args.fn = "preparation" -> score_preparation(results, call.args.race_date)
      [] call.args.fn = "injury" -> score_injury(results, call.args.race_date)

\* days before the race day of the i-th result
Ago(i) == Days(call.args.race_date, result_date(call.args.results[i]).value)

\* the history of the call holds a win that is more recent than a 15th place
WinIsRecent ==
    /\ call.args.results \in PairHistories
    /\ Ago(1) < Ago(2)

\* the same history with the two placings swapped
WinIsOld ==
    [call.args.results EXCEPT ![1].rank = IntRank(15), ![2].rank = IntRank(1)]

StrictlyAboveSwapped ==
    /\ call.ret.exc = ""
    /\ Rescore(WinIsOld).exc = ""
    /\ RatLess(Rescore(WinIsOld).value, call.ret.value)

\* C13 as stated: whatever the two offsets, recent form and momentum score
\* the history whose win is the more recent placing strictly above the
\* history with the two placings swapped.
C13_RecentWinAlwaysAbove ==
    ((Called("recent_form") \/ Called("momentum")) /\ WinIsRecent)
        => StrictlyAboveSwapped

\* the offsets at which the function of the call ranks the win-is-recent
\* history first
Distinguishes ==
    IF call.args.fn = "recent_form" THEN Ago(1) <= window_days
    ELSE Ago(1) <= 30 /\ Ago(2) > 30

\* C13, amended: recent form scores the win-is-recent history strictly above
\* the swapped one when the more recent offset lies in the 90-day window,
\* momentum when the more recent offset is at most 30 days and the other one
\* more than 30 days.
C13_RecentWinAboveWhenDistinguished ==
    ((Called("recent_form") \/ Called("momentum")) /\ WinIsRecent /\ Distinguishes)
        => StrictlyAboveSwapped

\* a recent-form call with both placings in the window and other results around
C13_Witness ==
    /\ Called("recent_form")
    /\ WinIsRecent
    /\ Ago(2) <= window_days
    /\ Len(call.args.results) > 2
    /\ StrictlyAboveSwapped

\* a momentum call with the win in the last 30 days and the 15th place before
C13_WitnessMomentum ==
    /\ Called("momentum")
    /\ WinIsRecent
    /\ Ago(1) <= 30
    /\ Ago(2) \in 31 .. 60
    /\ StrictlyAboveSwapped

\* factor * exp(exponent) of a is below that of b, decided without evaluating
\* the exponential
GaussLess(a, b) ==
    /\ RatLeq(Zero, a.factor)
    /\ RatLess(Zero, b.factor)
    /\ \/ RatLeq(a.factor, b.factor) /\ RatLess(a.exponent, b.exponent)
       \/ RatLess(a.factor, b.factor) /\ RatLeq(a.exponent, b.exponent)

RatAbs(x) == [num |-> Abs(x.num), den |-> x.den]

\* the optimum and the tolerance as the claim writes them
StatedOptimum(distance) == Rat(26 * 1000 + (distance - 180) * 42, 1000)

StatedSigma(distance) ==
    RatMax(Rat(35, 10), Rat(55 * 1000 - (distance - 180) * 120, 10000))

\* the age of the call is more than one sigma from the optimum of its distance
BeyondOneSigma ==
    /\ call.args.age # None
    /\ RatLess(StatedSigma(call.args.distance),
               RatAbs(RatSub(call.args.age[1], StatedOptimum(call.args.distance))))

AtOptimum ==
    score_age_distance(Some(StatedOptimum(call.args.distance)), call.args.distance)

\* C14: at every distance the score at the optimal age is exp(0) = 1, with no
\* youth penalty, and an age more than one sigma from the optimum scores
\* strictly less: its exponent is below -1/2 and its factor at most 1.
C14_OptimumAboveBeyondOneSigma ==
    Called("age_distance") =>
        /\ AtOptimum = Ret(Gauss(One, Zero))
        /\ BeyondOneSigma =>
              /\ call.ret.exc = ""
              /\ GaussLess(call.ret.value, AtOptimum.value)
              /\ RatLess(call.ret.value.exponent, Rat(-1, 2))
              /\ RatLeq(call.ret.value.factor, One)

\* a young athlete in a long race: beyond one sigma and penalised for youth
C14_Witness ==
    /\ Called("age_distance")
    /\ BeyondOneSigma
    /\ call.args.distance >= 250
    /\ RatLess(call.args.age[1], RatOf(24))
    /\ RatLess(call.ret.value.factor, One)
    /\ GaussLess(call.ret.value, AtOptimum.value)

\* the teams the table puts in a tier
Tier(n) == {t \in DOMAIN TEAM_TIERS : TEAM_TIERS[t] = n}

HasTeam == "team" \in DOMAIN call.args.rider_data /\ call.args.rider_data.team # ""

\* C15: team strength is exactly 1.0 for a tier-1 team, 0.7 for a tier-2
\* team, 0.4 for a non-empty team outside the table and 0.5 for a record
\* whose team is missing or empty (values in thousandths).
C15_TeamStrengthExactValues ==
    Called("team_strength") =>
        /\ call.ret.exc = ""
        /\ call.ret.value =
             IF ~HasTeam THEN 500
             ELSE IF call.args.rider_data.team \in Tier(1) THEN 1000
             ELSE IF call.args.rider_data.team \in Tier(2) THEN 700
             ELSE 400

\* a team the table does not list
C15_Witness ==
    /\ Called("team_strength")
    /\ HasTeam
    /\ call.args.rider_data.team \notin DOMAIN TEAM_TIERS
    /\ call.ret.value = 400

\* a record without the team key
C15_WitnessNoTeam ==
    /\ Called("team_strength")
    /\ "team" \notin DOMAIN call.args.rider_data
    /\ call.ret.value = 500

\* the entries of the call's history that are results of the race of the call
ReferencesTarget(r) == race_base_url(get_stage_url(r)) = call.args.race_base_url

NoEntryOfTarget ==
    \A i \in DOMAIN call.args.results : ~ReferencesTarget(call.args.results[i])

\* C16: course pedigree is exactly 0.0 for a history without an entry of the
\* target race, whatever the athlete did in other races.
C16_NoPedigreeWithoutTargetEntry ==
    (Called("classic_pedigree") /\ NoEntryOfTarget) => call.ret = Ret(Zero)

\* the feature functions that read the results list
ResultFunctions ==
    {"recent_form", "classic_pedigree", "previous_year", "preparation", "injury",
     "momentum"}

\* a rank that is neither a placing nor a non-finish
MalformedRank(rank) ==
    \/ rank.type = "int" /\ rank.value <= 0
    \/ rank.type = "str" /\ ~rank.isdigit /\ ~IsNonFinish(rank)
    \/ BadInt(rank)

\* a record whose date is missing or cannot be parsed, or whose rank is malformed
Offending(r) == ~Dated(r) \/ MalformedRank(get_rank(r))

Without(s, i) == SubSeq(s, 1, i - 1) \o SubSeq(s, i + 1, Len(s))

\* C17: a result-consuming feature function skips a record with a missing or
\* unparseable date or a malformed rank: it raises nothing and returns what
\* it returns for the list without that record.
C17_OffendingRecordSkipped ==
    (call.returned /\ call.args.fn \in ResultFunctions) =>
        \A i \in DOMAIN call.args.results :
            Offending(call.args.results[i]) =>
                /\ call.ret.exc = ""
                /\ call.ret = Rescore(Without(call.args.results, i))

-----------------------------------------------------------------------------
(* Properties of the prediction entries and of the default weights *)

EntryKeys == {"rider_name", "rider_url", "rank", "score", "features"}

\* the eleven names the claim lists
StatedFeatureKeys ==
    {"recent_form", "classic_pedigree", "specialty_score", "age_distance_fit",
     "previous_year", "preparation", "injury_penalty", "terrain_match",
     "sprint_capability", "momentum", "team_strength"}

C19_DefaultWeightsSumToOne ==
    (ctor = "ok" /\ raw = None) =>
        /\ SumValues(DEFAULT_WEIGHTS) = 1000
        /\ \A k \in DOMAIN DEFAULT_WEIGHTS : weights[k] = Rat(DEFAULT_WEIGHTS[k], 1000)

\* the catalog entry of the race of the call, None when it has none
CatalogEntry == catalog_get(race_base_url(call.args.race_url))

\* the features predict computes when the distance and the date are these
FeaturesAt(distance, race_date) ==
    [ age_distance_fit |-> score_age_distance(ContextAge, distance),
      recent_form |-> score_recent_form(ContextResults, race_date, window_days) ]

UsedDistance == call.ret.value.context.distance
UsedDate == call.ret.value.context.race_date

\* C20: in predict a supplied race_distance or race_date is the value the
\* features are computed with, whether or not the race is in the catalog; the
\* catalog's typical distance and its month (the 15th of it) are used exactly
\* when the override is absent and the race is in the catalog.
C20_OverridesTakePrecedence ==
    Called("predict") =>
        /\ call.args.race_distance # None => UsedDistance = call.args.race_distance[1]
        /\ call.args.race_date # None => UsedDate = call.args.race_date[1]
        /\ (call.args.race_distance = None /\ CatalogEntry # None)
              => UsedDistance = CatalogEntry[1].typical_distance
        /\ (call.args.race_date = None /\ CatalogEntry # None)
              => UsedDate = Date(call.args.year, CatalogEntry[1].month, 15)
        /\ call.ret.value.age_distance_fit = FeaturesAt(UsedDistance, UsedDate).age_distance_fit
        /\ call.ret.value.recent_form = FeaturesAt(UsedDistance, UsedDate).recent_form

\* a catalog race called with a distance of 0 and a date outside the
\* catalog's month: the features differ from those at the catalog's values
C20_Witness ==
    /\ Called("predict")
    /\ CatalogEntry # None
    /\ call.args.race_distance = Some(0)
    /\ call.args.race_date # None
    /\ call.args.race_date[1].month # CatalogEntry[1].month
    /\ UsedDistance = 0
    /\ UsedDate = call.args.race_date[1]
    /\ LET catalog == FeaturesAt(CatalogEntry[1].typical_distance,
                                 Date(call.args.year, CatalogEntry[1].month, 15))
       IN  /\ call.ret.value.age_distance_fit # catalog.age_distance_fit
           /\ call.ret.value.recent_form # catalog.recent_form

-----------------------------------------------------------------------------
(* Frame of predict *)

\* the order of the returned entries differs from the order of the startlist
Reordered ==
    /\ Returned
    /\ Len(Output) = Len(startlist)
    /\ \E i \in DOMAIN Output : Output[i].rider_url # startlist[i].rider_url

-----------------------------------------------------------------------------
(* The sanity band of the calibrator *)

\* the edges of the two band tests, in ten-thousandths
RemainingBand == [low |-> 2000, high |-> 6000]
RestBand == [low |-> 1000, high |-> 4500]

MajorFeatures == {"classic_pedigree", "terrain_match", "specialty_score", "previous_year"}

\* the features that share the residual budget
MinorFeatures == DOMAIN CandidateWeights(GridPoint(1)) \ MajorFeatures

\* 1 minus the sum of the major weights of a candidate, in ten-thousandths
ResidualOf(w) == 10000 - SumOver(w, MajorFeatures)

\* what is left of it after the preparation and sprint weights
RestOf(w) == ResidualOf(w) - w.preparation - w.sprint_capability

PassedToBacktest == opt # None /\ opt.passed # None

\* C22: every weights dict optimize_weights hands to run_backtest has its
\* residual budget inside the band of the first test and the rest inside
\* the band of the second, all weights non-negative and the weights of the
\* minor features strictly positive.
C22_EvaluatedInsideBand ==
    PassedToBacktest =>
        LET w == opt.passed[1]
        IN  /\ RemainingBand.low <= ResidualOf(w)
            /\ ResidualOf(w) <= RemainingBand.high
            /\ RestBand.low <= RestOf(w)
            /\ RestOf(w) <= RestBand.high
            /\ \A k \in DOMAIN w : w[k] >= 0
            /\ \A k \in MinorFeatures : w[k] > 0

\* a candidate was backtested after grid points below and above the bands
\* were skipped
C22_Witness ==
    /\ PassedToBacktest
    /\ opt.pc = "search"
    /\ \E i \in 1 .. opt.idx - 1 : Rest(GridPoint(i)) < 10
    /\ \E i \in 1 .. opt.idx - 1 : Remaining(GridPoint(i)) > 60

-----------------------------------------------------------------------------
(* The aggregate metrics of run_backtest *)

\* the races of the set that are not flagged as sprinters' races
Kept == {i \in DOMAIN races : ~races[i].is_sprinters_race}

\* the scores of the predictor with the raw weights w on the i-th race
RaceScores(w, i) ==
    score_predictions(
        PredictResult(Normalize(w, SumValues(w)), build_startlist,
                      races[i].rider_data, NoSite),
        races[i].actual_top10)

\* the per-race metric each aggregate metric averages
MetricOf ==
    [ avg_top10_hit |-> "top10_hit_rate", avg_top5_hit |-> "top5_hit_rate",
      winner_top3_pct |-> "winner_in_top3", winner_top5_pct |-> "winner_in_top5",
      avg_rank_error |-> "avg_rank_error" ]

\* the per-race metric key added up over the races S; per_race holds the
\* scores of every race of S
RECURSIVE MetricSum(_, _, _)
MetricSum(per_race, key, S) ==
    IF S = {} THEN Zero
    ELSE LET i == CHOOSE x \in S : TRUE
         IN  RatAdd(per_race[i][key], MetricSum(per_race, key, S \ {i}))

\* C23: when every race of the set is skipped, or the set is empty,
\* run_backtest returns the empty mapping (no candidate is scored and no
\* metrics are kept); otherwise each aggregate metric kept with the best
\* weights is the arithmetic mean of the per-race metric over exactly the
\* races that are not sprinters' races.
C23_AggregateIsMeanOverKeptRaces ==
    PassedToBacktest =>
        IF Kept = {}
        THEN opt.tested = 0 /\ opt.best_metrics = None
        ELSE /\ opt.best_metrics # None
             /\ opt.best_weights # None
             /\ DOMAIN opt.best_metrics[1] = DOMAIN MetricOf
             /\ \E per_race \in
                    {[i \in Kept |-> RaceScores(opt.best_weights[1], i)]} :
                   \A agg \in DOMAIN MetricOf :
                      RatMul(opt.best_metrics[1][agg], RatOf(Cardinality(Kept)))
                          = MetricSum(per_race, MetricOf[agg], Kept)

\* a set with a sprinters' race and a scored race, after a backtest
C23_Witness ==
    /\ PassedToBacktest
    /\ opt.best_metrics # None
    /\ Kept # {}
    /\ Kept # DOMAIN races

\* a set of sprinters' races only, after a backtest returned no metrics
C23_WitnessAllSkipped ==
    /\ PassedToBacktest
    /\ races # << >>
    /\ Kept = {}
    /\ opt.best_metrics = None

-----------------------------------------------------------------------------
(* Properties of the injury indicator *)

Floor == Rat(3, 10)

\* the value lies between lo and hi
Within(v, lo, hi) == RatLeq(lo, v) /\ RatLeq(v, hi)

\* no result of the list is dated in the season of the race, before the race
NoSeasonResult ==
    \A i \in DOMAIN call.args.results :
        ~InSeason(call.args.results[i], call.args.race_date)

\* C24 as stated: for every results list and race date _score_injury
\* returns a value in [0.3, 1.0], and exactly 0.3 when no result is dated in
\* the season strictly before the race date.
C24_InjuryAlwaysWithinFloorAndOne ==
    Called("injury") =>
        /\ call.ret.exc = ""
        /\ Within(call.ret.value, Floor, One)
        /\ NoSeasonResult => call.ret.value = Floor

\* the days (as ordinals) on which the list has a result of the season
SeasonDays ==
    { ToOrdinal(result_date(call.args.results[i]).value) :
        i \in {j \in DOMAIN call.args.results :
                  InSeason(call.args.results[j], call.args.race_date)} }

\* the season started after 25 January
LateStart ==
    \A d \in SeasonDays : d > ToOrdinal(Date(call.args.race_date.year, 1, 25))

\* the number of gaps of more than 28 days between consecutive race days
LongGaps ==
    Cardinality({ d \in SeasonDays :
                    \E e \in SeasonDays :
                        /\ e - d > 28
                        /\ \A x \in SeasonDays : ~(d < x /\ x < e) })

\* a non-finish of the season in the 30 days up to the race
RecentNonFinishes ==
    \E i \in DOMAIN call.args.results :
        LET r == call.args.results[i]
        IN  /\ InSeason(r, call.args.race_date)
            /\ Days(call.args.race_date, result_date(r).value) <= 30
            /\ IsNonFinish(get_rank(r))

\* an / ad <= bn / bd for non-negative fractions, by their continued
\* fractions: no product is formed
RECURSIVE FracLeq(_, _, _, _)
FracLeq(an, ad, bn, bd) ==
    IF an \div ad # bn \div bd THEN an \div ad < bn \div bd
    ELSE IF an % ad = 0 THEN TRUE
    ELSE IF bn % bd = 0 THEN FALSE
    ELSE FracLeq(bd, bn % bd, ad, an % ad)

RECURSIVE RatPow(_, _)
RatPow(x, n) == IF n = 0 THEN One ELSE RatMul(x, RatPow(x, n - 1))

\* the least the penalties at work can leave of 1.0
LeastPenalty ==
    RatMul(RatMul(IF LateStart THEN Rat(1, 2) ELSE One,
                  RatPow(Rat(85, 100), LongGaps)),
           IF RecentNonFinishes THEN Rat(6, 10) ELSE One)

\* the calls that return: the value lies in [0.3, 1.0], is 0.3 without a
\* result of the season, is 1.0 when no penalty is at work, and is not
\* below what the smallest factors (0.5, 0.85 per gap, 0.6) leave
InjuryWithinFloorAndOneWhenReturned ==
    (Called("injury") /\ call.ret.exc = "") =>
        /\ Within(call.ret.value, Floor, One)
        /\ NoSeasonResult => call.ret.value = Floor
        /\ ~NoSeasonResult =>
              /\ FracLeq(LeastPenalty.num, LeastPenalty.den,
                         call.ret.value.num, call.ret.value.den)
              /\ LeastPenalty = One => call.ret.value = One

\* a call whose product of penalties lies below the floor
InjuryFloored ==
    /\ Called("injury")
    /\ call.ret = Ret(Floor)
    /\ ~NoSeasonResult
    /\ Len(call.args.results) >= 6

-----------------------------------------------------------------------------
(* Properties of the preparation signal *)

\* the results of the list dated in the race year before the race date,
\* each position counted
RaceDaysCounted ==
    Cardinality({ i \in DOMAIN call.args.results :
                    InSeason(call.args.results[i], call.args.race_date) })

DaysIntoSeason ==
    Days(call.args.race_date, Date(call.args.race_date.year, 1, 1))

\* the value stated for a count and a target band
BandValue(count, low, high) ==
    IF RatLeq(low, RatOf(count)) /\ RatLeq(RatOf(count), high) THEN One
    ELSE IF RatLess(RatOf(count), low)
    THEN RatMax(Rat(1, 10), RatDiv(RatOf(count), low))
    ELSE RatMax(Rat(3, 10),
                RatSub(One, RatMul(Rat(2, 100), RatSub(RatOf(count), high))))

\* the whole number int() leaves of days * hundredths / 100
Truncated(days, hundredths) ==
    LET floor == CHOOSE n \in 0 .. days :
                    n * 100 <= days * hundredths /\ days * hundredths < (n + 1) * 100
    IN  IF <<days, hundredths>> \in FloatShort THEN floor - 1 ELSE floor

\* C25 as stated: a call that returns gives the value of the count against
\* the band low = max(10, 0.20 * daysIntoSeason),
\* high = max(20, 0.35 * daysIntoSeason).
C25_BandOfExactShares ==
    (Called("preparation") /\ call.ret.exc = "") =>
        call.ret.value =
            BandValue(RaceDaysCounted,
                      RatMax(RatOf(10), Rat(20 * DaysIntoSeason, 100)),
                      RatMax(RatOf(20), Rat(35 * DaysIntoSeason, 100)))

\* C25: a call that returns gives the value of the count (duplicates
\* counted) against the band low = max(10, int(0.20 * daysIntoSeason)),
\* high = max(20, int(0.35 * daysIntoSeason)): 1.0 inside the band,
\* max(0.1, count / low) below it, max(0.3, 1 - 0.02 * (count - high)) above.
C25_BandOfTruncatedShares ==
    (Called("preparation") /\ call.ret.exc = "") =>
        call.ret.value =
            BandValue(RaceDaysCounted,
                      RatOf(Max(10, Truncated(DaysIntoSeason, 20))),
                      RatOf(Max(20, Truncated(DaysIntoSeason, 35))))

\* a count that equals the truncated low edge and lies below the exact one
C25_Witness ==
    /\ Called("preparation")
    /\ call.ret = Ret(One)
    /\ RaceDaysCounted = Truncated(DaysIntoSeason, 20)
    /\ RaceDaysCounted * 100 < 20 * DaysIntoSeason
    /\ RaceDaysCounted > 10

\* the decay above the band, on the day whose high edge the float product
\* lowers by one
C25_WitnessAbove ==
    /\ Called("preparation")
    /\ call.args.race_date = SummerDay
    /\ RaceDaysCounted = 63
    /\ call.ret = Ret(Rat(98, 100))

-----------------------------------------------------------------------------
(* Properties of the momentum signal *)

\* the days from the i-th result of the list to the race day
DaysBefore(i) == Days(call.args.race_date, result_date(call.args.results[i]).value)

\* no result of the list is dated in the 60 days before the race date
NoResultWithinSixtyDays ==
    \A i \in DOMAIN call.args.results :
        Dated(call.args.results[i]) => DaysBefore(i) \notin 1 .. 60

\* the list without the results dated on the race day or later
BeforeRaceOnly ==
    LET Before(r) == ~(Dated(r) /\ Days(call.args.race_date, result_date(r).value) <= 0)
    IN  SelectSeq(call.args.results, Before)

\* C26 as stated: _score_momentum returns 0.3 when the list has no result
\* within the 60 days before the race date, for every results list its value
\* lies in [0, 1], and results dated on the race day or later are in neither
\* bucket: the value is that of the list without them.
C26_MomentumAlwaysWithinUnit ==
    Called("momentum") =>
        /\ call.ret.exc = ""
        /\ Within(call.ret.value, Zero, One)
        /\ NoResultWithinSixtyDays => call.ret.value = Rat(3, 10)
        /\ call.ret = Rescore(BeforeRaceOnly)

\* the same for the calls that return
MomentumWithinUnitWhenReturned ==
    (Called("momentum") /\ call.ret.exc = "") =>
        /\ Within(call.ret.value, Zero, One)
        /\ NoResultWithinSixtyDays => call.ret.value = Rat(3, 10)
        /\ call.ret = Rescore(BeforeRaceOnly)

\* a call with a win on the race day and a placing in the month before
MomentumIgnoresRaceDay ==
    /\ Called("momentum")
    /\ call.ret.exc = ""
    /\ call.ret.value # Rat(3, 10)
    /\ \E i \in DOMAIN call.args.results :
          /\ Dated(call.args.results[i])
          /\ DaysBefore(i) = 0
          /\ get_rank(call.args.results[i]) = IntRank(1)

-----------------------------------------------------------------------------
(* Properties of the log-normalised signals *)

ProfileSignals ==
    {"specialty", "terrain_match", "sprint_capability", "uphill_sprint", "cobble_capability"}

BlendedSignals == {"sprint_capability", "uphill_sprint", "cobble_capability"}

NonNegativePoints(profile) == \A s \in Specialities : RatLeq(Zero, Points(profile, s))

InCatalog(base_url) == catalog_get(base_url) # None

\* log1p(raw) / log1p(ref) lies in [0, 1] exactly when raw lies in [0, ref]
ScoreInUnit(score) == RatLeq(Zero, score.raw) /\ RatLeq(score.raw, score.ref)

ScoreIsZero(score) == score.raw = Zero

\* a mean of two scores of [0, 1] with weights p and 1 - p of [0, 1]
BlendInUnit(v) ==
    /\ ScoreInUnit(v.a)
    /\ ScoreInUnit(v.b)
    /\ RatLeq(Zero, v.p)
    /\ RatLeq(Zero, v.q)
    /\ RatAdd(v.p, v.q) = One

BlendIsZero(v) ==
    /\ v.p = Zero \/ ScoreIsZero(v.a)
    /\ v.q = Zero \/ ScoreIsZero(v.b)

\* the raw point sum a signal normalises
RawSum(args) ==
    IF args.fn = "specialty" THEN Points(args.profile, "one_day_races")
    ELSE IF args.fn = "terrain_match"
    THEN TerrainRaw(args.profile, args.terrain, MetaDict(args.race_base_url)).raw
    ELSE IF args.fn = "sprint_capability"
    THEN RatAdd(Points(args.profile, "sprint"), Points(args.profile, "one_day_races"))
    ELSE IF args.fn = "uphill_sprint" THEN PuncheurRaw(args.profile)
    ELSE CobbleRaw(args.profile)

\* C27: for a profile with non-negative specialty points and a race of the
\* catalog, each of specialty_score, terrain_match, sprint_capability,
\* uphill_sprint and cobble_capability lies in [0, 1], points above the
\* reference included, and is 0 when its raw point sum is 0 or less
C27_LogSignalsWithinUnit ==
    ( /\ call.returned
      /\ call.args.fn \in ProfileSignals
      /\ NonNegativePoints(call.args.profile)
      /\ InCatalog(call.args.race_base_url) )
    => /\ call.ret.exc = ""
       /\ IF call.args.fn \in BlendedSignals
          THEN /\ BlendInUnit(call.ret.value)
               /\ RatLeq(RawSum(call.args), Zero) => BlendIsZero(call.ret.value)
          ELSE /\ ScoreInUnit(call.ret.value)
               /\ RatLeq(RawSum(call.args), Zero) => ScoreIsZero(call.ret.value)

\* a cobble score clamped to 1.0 in a race that blends it with the generic one
C27_Witness ==
    /\ Called("cobble_capability")
    /\ InCatalog(call.args.race_base_url)
    /\ NonNegativePoints(call.args.profile)
    /\ RatLess(RatOf(4000), CobbleRaw(call.args.profile))
    /\ call.ret.value.a = OneScore
    /\ RatLess(Zero, call.ret.value.p)
    /\ RatLess(Zero, call.ret.value.q)
    /\ ~ScoreIsZero(call.ret.value.b)
    /\ call.ret.value.b # OneScore

\* a terrain match of exactly 0.0 for a profile without points
C27_WitnessZero ==
    /\ Called("terrain_match")
    /\ InCatalog(call.args.race_base_url)
    /\ RatLeq(RawSum(call.args), Zero)
    /\ call.ret.value = ZeroScore

\* with points below zero the uphill signal is positive on a raw sum below zero
NegativePointsScore ==
    /\ Called("uphill_sprint")
    /\ ~NonNegativePoints(call.args.profile)
    /\ RatLess(RawSum(call.args), Zero)
    /\ ~BlendIsZero(call.ret.value)

-----------------------------------------------------------------------------
(* The order of the results list *)

\* the features computed from the results list; the other seven read the
\* profile, the team and the race only
ResultSignals ==
    {"recent_form", "momentum", "classic_pedigree", "previous_year", "preparation", "injury"}

\* longest list of which every permutation is tried
MaxPermuted == 4

Orders ==
    [ n \in 0 .. MaxPermuted |->
        { f \in [1 .. n -> 1 .. n] : \A i, j \in 1 .. n : f[i] = f[j] => i = j } ]

Permuted(s, f) == [ i \in DOMAIN s |-> s[f[i]] ]

\* every permutation of a short list; of a longer one the reversed list and
\* the list with its first record moved to the end
Reorderings(s) ==
    IF Len(s) <= MaxPermuted
    THEN { Permuted(s, f) : f \in Orders[Len(s)] }
    ELSE { [ i \in DOMAIN s |-> s[Len(s) + 1 - i] ],
           [ i \in DOMAIN s |-> s[(i % Len(s)) + 1] ] }

ReturnedSignal == call.returned /\ call.args.fn \in ResultSignals /\ call.ret.exc = ""

\* C28: the order of the results list does not matter: every permutation
\* of the list gives the feature function the same value
C28_OrderOfResultsIrrelevant ==
    ReturnedSignal => \A rs \in Reorderings(call.args.results) : Rescore(rs) = call.ret

\* C28 as the code has it: every permutation of the list gives the same
\* value in exact arithmetic, so that two orders differ by the binary64
\* rounding of the sums at most (two units in the last place for the lists
\* measured); preparation and the injury indicator, which count and which
\* work on the date-sorted copy, are the same to the last bit
C28_OrderFreeUpToRounding ==
    ReturnedSignal =>
        \A rs \in Reorderings(call.args.results) :
            /\ Rescore(rs).exc = ""
            /\ Rescore(rs).value = call.ret.value
            /\ Rescore(rs).ulps - call.ret.ulps \in -2 .. 2
            /\ call.args.fn \in {"preparation", "injury"} => Rescore(rs) = call.ret

\* a call that raises does so in every order of its list
RaisesInEveryOrder ==
    (call.returned /\ call.args.fn \in ResultSignals /\ call.ret.exc # "")
    => \A rs \in Reorderings(call.args.results) : Rescore(rs).exc # ""

\* two wins and two second places: the momentum of one order is two units in
\* the last place above that of another
OrderChangesLastPlace ==
    /\ Called("momentum")
    /\ call.ret.ulps = 1
    /\ \E rs \in Reorderings(call.args.results) : Rescore(rs).ulps = -1

\* an injury indicator below 1.0 for a list that is not sorted by date
C28_Witness ==
    /\ Called("injury")
    /\ call.ret.exc = ""
    /\ Len(call.args.results) \in 3 .. MaxPermuted
    /\ \E i \in 1 .. Len(call.args.results) - 1 :
           /\ Dated(call.args.results[i]) /\ Dated(call.args.results[i + 1])
           /\ Days(result_date(call.args.results[i + 1]).value,
                   result_date(call.args.results[i]).value) < 0
    /\ RatLess(Floor, call.ret.value)
    /\ RatLess(call.ret.value, One)

-----------------------------------------------------------------------------
(* No look-ahead *)

\* longest run of later results added to a history
MaxAdded == 2

\* the race date of the call; pedigree and previous-year calls are those of
\* the race of RaceDay, which falls in their current_year
RaceDateOf(args) == IF "race_date" \in DOMAIN args THEN args.race_date ELSE RaceDay

DateStrOf(d) == DateStr(<<d.year, d.month, d.day>>)

\* results of the race day and later: a win in the target race on the race
\* day, a non-finish the day after, and at the end of the year a placing
\* whose rank string (a superscript two) isdigit() accepts and int() rejects
LaterResults(d) ==
    << ResultRecord(DateStrOf(d), IntRank(1), Edition(<<"paris-roubaix">>, "2024"), ClassUWT),
       ResultRecord(DateStrOf(MinusDays(d, -1)), StrRank("DNF", FALSE, NaN),
                    Edition(<<"paris-roubaix">>, "2024"), ClassUWT),
       ResultRecord(DateStrOf(Date(d.year, 12, 31)), StrRank("^2", TRUE, NaN),
                    Edition(<<"il-lombardia">>, "2024"), ClassUWT) >>

\* runs of up to MaxAdded later results, taken in turn from each of the three
Added(d) ==
    { [ i \in 1 .. n |-> LaterResults(d)[((i + k) % 3) + 1] ] :
        n \in 0 .. MaxAdded, k \in 0 .. 2 }

\* C29: no look-ahead: results dated on the race date or later, added to a
\* history in any number, leave the value of every feature computed from
\* the results unchanged, and with it the score and the ranking
C29_NoLookAhead ==
    (call.returned /\ call.args.fn \in ResultSignals)
    => \A extra \in Added(RaceDateOf(call.args)) :
           /\ Rescore(extra \o call.args.results) = call.ret
           /\ Rescore(call.args.results \o extra) = call.ret

\* a recent form above 0 from results before the race day
C29_Witness ==
    /\ Called("recent_form")
    /\ call.ret.exc = ""
    /\ RatLess(Zero, call.ret.value)
    /\ RatLess(call.ret.value, One)
    /\ \E extra \in Added(RaceDateOf(call.args)) :
           /\ Len(extra) = MaxAdded
           /\ Rescore(extra \o call.args.results) = call.ret

\* a history that already holds a result of the race day
C29_WitnessRaceDay ==
    /\ Called("injury")
    /\ call.ret.exc = ""
    /\ RatLess(Floor, call.ret.value)
    /\ \E i \in DOMAIN call.args.results :
           /\ Dated(call.args.results[i])
           /\ result_date(call.args.results[i]).value = call.args.race_date

-----------------------------------------------------------------------------
(* Scaling the weights                                                      *)

MaxScale == 3

Scaled(v, c) == [k \in DOMAIN v |-> c * v[k]]

Predicted == Called("predict_from_data")

\* the predictions of the same startlist under c times the weights,
\* written in the given unit
Rescaled(c, unit) ==
    predict_under(Scaled(call.args.weights, c), unit, call.args.startlist)

\* C30 (as stated): for every weight vector w and every positive constant
\* c, the predictor built with w and the one built with c * w return the
\* same predictions: the same scores, in the same order, with the same
\* ranks.  Here c runs over the whole numbers up to MaxScale, and over
\* their tenths and their tenfolds through the unit.
C30_ScalingLeavesPredictionsUnchanged ==
    Predicted =>
        \A c \in 1..MaxScale, u \in Units : Rescaled(c, u) = call.ret

\* the scores of two predictions of one startlist are at most one tenth
\* apart, rider by rider
WithinATenth(p, q) ==
    /\ Len(p) = Len(q)
    /\ \A i \in DOMAIN p :
          \E j \in DOMAIN q :
              /\ q[j].rider_url = p[i].rider_url
              /\ q[j].score - p[i].score \in -1..1

\* C30 (amended): for weights that are whole numbers and a whole constant
\* c, the predictor built with w and the one built with c * w return the
\* same predictions; for any weights and any positive constant the two
\* either both fail on a zero total or return scores that are at most one
\* tenth apart for every rider, since the division by the total is rounded
\* to the nearest float.
C30_ScalingExactForWholeWeights ==
    Predicted =>
        \A c \in 1..MaxScale, u \in Units :
            /\ Rescaled(c, u).exc = call.ret.exc
            /\ call.args.unit = 1 /\ u = 1 => Rescaled(c, u) = call.ret
            /\ call.ret.exc = "" =>
                   WithinATenth(call.ret.value, Rescaled(c, u).value)

\* two riders with different scores were predicted with whole weights on
\* two keys
C30_Witness ==
    /\ Predicted
    /\ call.ret.exc = ""
    /\ call.args.unit = 1
    /\ call.args.weights = [classic_pedigree |-> 3, bogus_feature |-> 1]
    /\ Len(call.ret.value) = 2
    /\ call.ret.value[1].score > call.ret.value[2].score
    /\ call.ret.value[2].score > 0

\* the weights 0.3 and 0.1 score a rider one tenth below the weights 3 and 1
C30_WitnessTenth ==
    /\ Predicted
    /\ call.args.unit = 10
    /\ call.ret.exc = ""
    /\ \E i \in DOMAIN call.ret.value :
          \E j \in DOMAIN Rescaled(1, 1).value :
              /\ Rescaled(1, 1).value[j].rider_url = call.ret.value[i].rider_url
              /\ Rescaled(1, 1).value[j].score = call.ret.value[i].score + 1

\* a zero total fails whatever the constant
C30_WitnessZeroTotal ==
    /\ Predicted
    /\ call.ret.exc = "ZeroDivisionError"

====
